---- MODULE Spec2Model ----
(***************************************************************************)
(* Defence-Mission-Track backend: the record store (teams, team_members,   *)
(* missions, messages, notifications), the realtime layer (connection      *)
(* registry, rooms, emitted events) and the request handlers that tie them *)
(* together.                                                               *)
(*                                                                         *)
(* Every handler is an async function.  A handler instance is a record in  *)
(* procs; its pc names the store call it is about to issue.  One action    *)
(* runs the synchronous code from the resumption of the previous await up  *)
(* to and including the next store call, whose outcome is kept in the      *)
(* handler's locals.  Other handlers interleave between any two actions,   *)
(* i.e. between a store call taking effect and its continuation.           *)
(* A store call either completes or returns an error (faults counts the  *)
(* errors the environment may still inject).                               *)
(***************************************************************************)
EXTENDS Naturals, Integers, FiniteSets, Sequences, TLC

(* ---------------------------- bounds ----------------------------------- *)
MaxStoreFailures == 2
MaxRealtimeFailures == 1
MaxEvents == 5
MaxNotifications == 3
MaxMessages == 1
MaxContentFailures == 1
MaxTyping == 2
MaxLen == 2

Users == {"u1", "u2", "u3"}
Missions == {"m1", "m2"}
Keys == {"k1", "k2"}
Ivs == {"iv1", "iv2"}
Plaintexts == {"status?"}
Teams == {"t1", "t2"}
Sockets == {"s1", "s2"}
Procs == {"p1", "p2"}
None == "none"

Roles == {"leader", "member", "observer"}
Statuses == {"safe", "need_backup", "in_progress", "offline"}

VARIABLES
    teams,           \* rows of table teams (their ids)
    usedTeams,       \* ids gen_random_uuid() has handed out for teams
    team_members,    \* rows of table team_members
    missions,        \* rows of table missions
    messages,        \* rows of table messages, in insertion order
    notifications,   \* rows of table notifications, in insertion order
    usedKeys,        \* key material crypto.randomBytes has produced
    connectedUsers,  \* WebSocketService.connectedUsers: userId -> socketId
    sockets,         \* per socket: its state, its user and its rooms
    joinTasks,       \* joinUserTeams, one run per connection
    offlineTasks,    \* updateUserOfflineStatus, one run per disconnect
    events,          \* events emitted through io / socket, in emission order
    procs,           \* handler instances
    faults           \* store errors the environment may still inject

content == <<missions, messages, usedKeys>>
realtime == <<connectedUsers, sockets, joinTasks, offlineTasks, events>>

vars == <<teams, usedTeams, team_members, notifications, content, realtime,
          procs, faults>>

(* --------------------------- record store ------------------------------ *)
MemberRow(t, u, r, s) == [team_id |-> t, user_id |-> u, role |-> r, status |-> s]

RowsOf(u, t) == {m \in team_members : m.user_id = u /\ m.team_id = t}

\* A store call completes (TRUE) or returns an error (FALSE).
Outcomes == IF faults > 0 THEN {TRUE, FALSE} ELSE {TRUE}

Spend(ok) == IF ok THEN faults ELSE faults - 1

\* A membership check that passes whenever the store answers.
IsTeamMember_anyRow(u, t, ok) == ok

\* A membership check that passes when the store does not answer.
IsTeamMember_failOpen(u, t, ok) == ~ok \/ Cardinality(RowsOf(u, t)) = 1

\* .single() yields an error unless exactly one row matches.
IsTeamMember(u, t, ok) == ok /\ Cardinality(RowsOf(u, t)) = 1

\* A leader check that passes for a row of any role.
IsTeamLeader_anyRole(u, t, ok) == ok /\ Cardinality(RowsOf(u, t)) = 1

\* DatabaseService.isTeamLeader: !error && data?.role === 'leader'
IsTeamLeader(u, t, ok) ==
    ok /\ Cardinality(RowsOf(u, t)) = 1
       /\ \A m \in RowsOf(u, t) : m.role = "leader"

LeadersOf(t) == {m \in team_members : m.team_id = t /\ m.role = "leader"}

\* A team_members table without its UNIQUE constraint.
CanInsertMember_noConstraint(t, u) == t \in teams

\* INSERT into team_members; UNIQUE(team_id, user_id) rejects a second row.
CanInsertMember(t, u) == RowsOf(u, t) = {} /\ t \in teams

\* Absent message / mission in a payload or a local.
NoMessage == [id |-> 0, team_id |-> None, sender_id |-> None, content |-> <<>>,
              is_encrypted |-> FALSE]

NoMission == [id |-> None, team_id |-> None, status |-> None, created_by |-> None]

(* --------------------------- handler records --------------------------- *)
\* Locals of a handler, named as in the source.  These fields record what
\* happened rather than what the code holds: leadersAtDelete, deleted,
\* removedLeader, teamLeft and leaderLeft (the rows present at the response), joined,
\* memberAtJoin, wrote (a row write of this run took effect), attempted,
\* failedFor, roster, thrown, checked and entitled (the store's answer to the
\* authorization question when the check ran), held (the status values of the
\* rows a status write addresses, when the write was issued).
Idle == [kind |-> "idle", pc |-> "idle", user |-> None, teamId |-> None,
         userId |-> None, arg |-> None, socket |-> None,
         isLeader |-> FALSE, isMember |-> FALSE, isAlreadyMember |-> FALSE,
         leadersOk |-> FALSE, leaders |-> {}, error |-> FALSE,
         team |-> None, teamMembers |-> {}, res |-> 0,
         leadersAtDelete |-> 0, deleted |-> FALSE,
         joined |-> FALSE, memberAtJoin |-> FALSE, wrote |-> FALSE,
         cur |-> None, attempted |-> {}, thrown |-> FALSE,
         roster |-> {}, failedFor |-> {}, checked |-> FALSE, entitled |-> FALSE,
         encryptionKey |-> None, resKey |-> None, missionId |-> None,
         message |-> NoMessage, missionDetails |-> NoMission, created |-> {},
         removedLeader |-> FALSE, teamLeft |-> FALSE, leaderLeft |-> FALSE,
         owed |-> {}, runtime |-> None, out |-> [ok |-> FALSE, text |-> <<>>],
         held |-> {}]

NewProc(kind, pc, user, teamId, userId, arg, socket) ==
    [Idle EXCEPT !.kind = kind, !.pc = pc, !.user = user, !.teamId = teamId,
                 !.userId = userId, !.arg = arg, !.socket = socket]

\* Handler instances are interchangeable: slot p is taken only when every
\* lower slot is.
FreeSlot(p) == procs[p].kind = "idle" /\ (p = "p2" => procs["p1"].kind # "idle")

Respond(p, code) == [procs[p] EXCEPT !.pc = "done", !.res = code]

\* A background run started by a connection or a disconnect.
\* snapshot, lookupFailed and writeFailed record what the run's store calls
\* returned; attempted records the teams whose update the run has issued.
NoTask == [pc |-> "idle", userTeams |-> {}, cur |-> None, error |-> FALSE,
           snapshot |-> {}, lookupFailed |-> FALSE, writeFailed |-> FALSE,
           attempted |-> {}]

(* ----------------------- TeamController.createTeam --------------------- *)
CreateTeamStart(p, u) ==
    /\ procs[p].kind = "idle"
    /\ procs' = [procs EXCEPT ![p] = NewProc("createTeam", "insertTeam", u, None, None, None, None)]
    /\ UNCHANGED <<teams, usedTeams, team_members, notifications, content, realtime, faults>>

\* insert into teams ... .select().single()
CreateTeam_insertTeam(p) ==
    /\ procs[p].kind = "createTeam" /\ procs[p].pc = "insertTeam"
    /\ \E ok \in Outcomes :
         /\ faults' = Spend(ok)
         /\ IF ok /\ Teams \ usedTeams # {}
            THEN \E t \in Teams \ usedTeams :
                   /\ teams' = teams \cup {t}
                   /\ usedTeams' = usedTeams \cup {t}
                   /\ procs' = [procs EXCEPT ![p].team = t, ![p].error = FALSE,
                                             ![p].pc = "insertMember"]
            ELSE /\ UNCHANGED <<teams, usedTeams>>
                 /\ procs' = [procs EXCEPT ![p].error = TRUE, ![p].pc = "insertMember"]
    /\ UNCHANGED <<team_members, notifications, content, realtime>>

\* if (error) 400; else insert the creator as role leader, status offline
CreateTeam_insertMember(p) ==
    /\ procs[p].kind = "createTeam" /\ procs[p].pc = "insertMember"
    /\ IF procs[p].error
       THEN /\ procs' = [procs EXCEPT ![p] = Respond(p, 400)]
            /\ UNCHANGED <<team_members, faults>>
       ELSE \E ok \in Outcomes :
              /\ faults' = Spend(ok)
              /\ IF ok /\ CanInsertMember(procs[p].team, procs[p].user)
                 THEN /\ team_members' = team_members \cup
                           {MemberRow(procs[p].team, procs[p].user, "leader", "offline")}
                      /\ procs' = [procs EXCEPT ![p].error = FALSE, ![p].pc = "afterMember"]
                 ELSE /\ UNCHANGED team_members
                      /\ procs' = [procs EXCEPT ![p].error = TRUE, ![p].pc = "afterMember"]
    /\ UNCHANGED <<teams, usedTeams, notifications, content, realtime>>

\* ON DELETE CASCADE: deleting a team row deletes its team_members rows.
DeleteTeamRow(t) ==
    /\ teams' = teams \ {t}
    /\ team_members' = {m \in team_members : m.team_id # t}

\* if (memberError) rollback: delete the team row (its result is not read);
\* else getTeamWithMembers (throws when the lookup fails)
CreateTeam_afterMember(p) ==
    /\ procs[p].kind = "createTeam" /\ procs[p].pc = "afterMember"
    /\ \E ok \in Outcomes :
         /\ faults' = Spend(ok)
         /\ IF procs[p].error
            THEN /\ IF ok THEN DeleteTeamRow(procs[p].team)
                          ELSE UNCHANGED <<teams, team_members>>
                 /\ procs' = [procs EXCEPT ![p].pc = "rolledBack"]
            ELSE /\ UNCHANGED <<teams, team_members>>
                 /\ procs' = [procs EXCEPT ![p].pc = "respond",
                                           ![p].error = ~(ok /\ procs[p].team \in teams)]
    /\ UNCHANGED <<usedTeams, notifications, content, realtime>>

\* 400 after the rollback, 500 from the catch block, 201 otherwise
CreateTeam_respond(p) ==
    /\ procs[p].kind = "createTeam" /\ procs[p].pc \in {"rolledBack", "respond"}
    /\ procs' = [procs EXCEPT ![p] =
                   [Respond(p, IF procs[p].pc = "rolledBack" THEN 400
                               ELSE IF procs[p].error THEN 500 ELSE 201)
                      EXCEPT !.teamLeft = procs[p].team \in teams,
                             !.leaderLeft = RowsOf(procs[p].user, procs[p].team)
                                               \cap LeadersOf(procs[p].team) # {}]]
    /\ UNCHANGED <<teams, usedTeams, team_members, notifications, content, realtime, faults>>

(* --------------------- DatabaseService.createNotification -------------- *)
Notification(u, type, p) == [user_id |-> u, type |-> type, read |-> FALSE, by |-> p]

\* insert(notification).select().single(); throws when the store reports an error
CreateNotification(u, type, p, ok) ==
    notifications' = IF ok THEN Append(notifications, Notification(u, type, p))
                     ELSE notifications

NotificationsFull == Len(notifications) >= MaxNotifications

(* --------------------- TeamController.addTeamMember -------------------- *)
AddTeamMemberStart(p, u, t, x, role) ==
    /\ procs[p].kind = "idle"
    /\ procs' = [procs EXCEPT ![p] = NewProc("addTeamMember", "isTeamLeader", u, t, x, role, None)]
    /\ UNCHANGED <<teams, usedTeams, team_members, notifications, content, realtime, faults>>

AddTeamMember_isTeamLeader(p) ==
    /\ procs[p].kind = "addTeamMember" /\ procs[p].pc = "isTeamLeader"
    /\ \E ok \in Outcomes :
         /\ faults' = Spend(ok)
         /\ procs' = [procs EXCEPT ![p].isLeader = IsTeamLeader(procs[p].user, procs[p].teamId, ok),
                                   ![p].pc = "isTeamMember"]
    /\ UNCHANGED <<teams, usedTeams, team_members, notifications, content, realtime>>

\* if (!isLeader) 403; else isTeamMember(userId, teamId)
AddTeamMember_isTeamMember(p) ==
    /\ procs[p].kind = "addTeamMember" /\ procs[p].pc = "isTeamMember"
    /\ IF ~procs[p].isLeader
       THEN /\ procs' = [procs EXCEPT ![p] = Respond(p, 403)]
            /\ UNCHANGED faults
       ELSE \E ok \in Outcomes :
              /\ faults' = Spend(ok)
              /\ procs' = [procs EXCEPT
                             ![p].isAlreadyMember = IsTeamMember(procs[p].userId, procs[p].teamId, ok),
                             ![p].pc = "insert"]
    /\ UNCHANGED <<teams, usedTeams, team_members, notifications, content, realtime>>

\* if (isAlreadyMember) 409; else insert {team_id, user_id, role, status: 'offline'}
AddTeamMember_insert(p) ==
    /\ procs[p].kind = "addTeamMember" /\ procs[p].pc = "insert"
    /\ IF procs[p].isAlreadyMember
       THEN /\ procs' = [procs EXCEPT ![p] = Respond(p, 409)]
            /\ UNCHANGED <<team_members, faults>>
       ELSE \E ok \in Outcomes :
              /\ faults' = Spend(ok)
              /\ IF ok /\ CanInsertMember(procs[p].teamId, procs[p].userId)
                 THEN /\ team_members' = team_members \cup
                           {MemberRow(procs[p].teamId, procs[p].userId, procs[p].arg, "offline")}
                      /\ procs' = [procs EXCEPT ![p].error = FALSE, ![p].pc = "getUserById"]
                 ELSE /\ UNCHANGED team_members
                      /\ procs' = [procs EXCEPT ![p].error = TRUE, ![p].pc = "getUserById"]
    /\ UNCHANGED <<teams, usedTeams, notifications, content, realtime>>

\* if (error) 400; else getUserById(userId), which throws on a failed lookup
AddTeamMember_getUserById(p) ==
    /\ procs[p].kind = "addTeamMember" /\ procs[p].pc = "getUserById"
    /\ IF procs[p].error
       THEN /\ procs' = [procs EXCEPT ![p] = Respond(p, 400)]
            /\ UNCHANGED faults
       ELSE \E ok \in Outcomes :
              /\ faults' = Spend(ok)
              /\ procs' = [procs EXCEPT ![p].error = ~ok, ![p].pc = "createNotification"]
    /\ UNCHANGED <<teams, usedTeams, team_members, notifications, content, realtime>>

\* catch: 500; else createNotification({user_id: userId, type: 'alert'})
AddTeamMember_createNotification(p) ==
    /\ procs[p].kind = "addTeamMember" /\ procs[p].pc = "createNotification"
    /\ IF procs[p].error
       THEN /\ procs' = [procs EXCEPT ![p] = Respond(p, 500)]
            /\ UNCHANGED <<notifications, faults>>
       ELSE /\ ~NotificationsFull
            /\ \E ok \in Outcomes :
                 /\ faults' = Spend(ok)
                 /\ CreateNotification(procs[p].userId, "alert", p, ok)
                 /\ procs' = [procs EXCEPT ![p].error = ~ok, ![p].pc = "respond"]
    /\ UNCHANGED <<teams, usedTeams, team_members, content, realtime>>

AddTeamMember_respond(p) ==
    /\ procs[p].kind = "addTeamMember" /\ procs[p].pc = "respond"
    /\ procs' = [procs EXCEPT ![p] = Respond(p, IF procs[p].error THEN 500 ELSE 201)]
    /\ UNCHANGED <<teams, usedTeams, team_members, notifications, content, realtime, faults>>

(* -------------------- TeamController.removeTeamMember ------------------ *)
RemoveTeamMemberStart(p, u, t, x) ==
    /\ procs[p].kind = "idle"
    /\ procs' = [procs EXCEPT ![p] = NewProc("removeTeamMember", "isTeamLeader", u, t, x, None, None)]
    /\ UNCHANGED <<teams, usedTeams, team_members, notifications, content, realtime, faults>>

RemoveTeamMember_isTeamLeader(p) ==
    /\ procs[p].kind = "removeTeamMember" /\ procs[p].pc = "isTeamLeader"
    /\ \E ok \in Outcomes :
         /\ faults' = Spend(ok)
         /\ procs' = [procs EXCEPT ![p].isLeader = IsTeamLeader(procs[p].user, procs[p].teamId, ok),
                                   ![p].pc = "authorize"]
    /\ UNCHANGED <<teams, usedTeams, team_members, notifications, content, realtime>>

IsRemovingSelf(p) == procs[p].user = procs[p].userId

\* delete().eq('team_id', teamId).eq('user_id', userId); leadersAtDelete and
\* deleted record what the store held when the delete took effect.
RemoveTeamMember_delete(p, ok) ==
    /\ team_members' = IF ok THEN team_members \ RowsOf(procs[p].userId, procs[p].teamId)
                       ELSE team_members
    /\ procs' = [procs EXCEPT ![p].error = ~ok, ![p].pc = "respond",
                              ![p].deleted = ok /\ RowsOf(procs[p].userId, procs[p].teamId) # {},
                              ![p].removedLeader =
                                  ok /\ RowsOf(procs[p].userId, procs[p].teamId)
                                           \cap LeadersOf(procs[p].teamId) # {},
                              ![p].leadersAtDelete = Cardinality(LeadersOf(procs[p].teamId))]

\* if (!isLeader && !isRemovingSelf) 403;
\* if (isRemovingSelf && isLeader) select the team's leaders; else delete
RemoveTeamMember_authorize(p) ==
    /\ procs[p].kind = "removeTeamMember" /\ procs[p].pc = "authorize"
    /\ IF ~procs[p].isLeader /\ ~IsRemovingSelf(p)
       THEN /\ procs' = [procs EXCEPT ![p] = Respond(p, 403)]
            /\ UNCHANGED <<team_members, faults>>
       ELSE \E ok \in Outcomes :
              /\ faults' = Spend(ok)
              /\ IF IsRemovingSelf(p) /\ procs[p].isLeader
                 THEN /\ procs' = [procs EXCEPT ![p].leadersOk = ok,
                                     ![p].leaders = IF ok THEN LeadersOf(procs[p].teamId) ELSE {},
                                     ![p].pc = "checkLeaders"]
                      /\ UNCHANGED team_members
                 ELSE RemoveTeamMember_delete(p, ok)
    /\ UNCHANGED <<teams, usedTeams, notifications, content, realtime>>

\* if (leaders && leaders.length <= 1)
OnlyLeader(leadersOk, leaders) == leadersOk /\ Cardinality(leaders) <= 1

RemoveTeamMember_checkLeaders(p) ==
    /\ procs[p].kind = "removeTeamMember" /\ procs[p].pc = "checkLeaders"
    /\ IF OnlyLeader(procs[p].leadersOk, procs[p].leaders)
       THEN /\ procs' = [procs EXCEPT ![p] = Respond(p, 400)]
            /\ UNCHANGED <<team_members, faults>>
       ELSE \E ok \in Outcomes :
              /\ faults' = Spend(ok)
              /\ RemoveTeamMember_delete(p, ok)
    /\ UNCHANGED <<teams, usedTeams, notifications, content, realtime>>

\* A removal that also takes the removed user's sessions out of the team's room.
RemoveTeamMember_respond_evict(p) ==
    /\ procs[p].kind = "removeTeamMember" /\ procs[p].pc = "respond"
    /\ procs' = [procs EXCEPT ![p] = Respond(p, IF procs[p].error THEN 400 ELSE 200)]
    /\ sockets' = [s \in DOMAIN sockets |->
                     IF ~procs[p].error /\ sockets[s].user = procs[p].userId
                     THEN [sockets[s] EXCEPT !.rooms = @ \ {procs[p].teamId}]
                     ELSE sockets[s]]
    /\ UNCHANGED <<teams, usedTeams, team_members, notifications, content, connectedUsers,
                   joinTasks, offlineTasks, events, faults>>

RemoveTeamMember_respond(p) ==
    /\ procs[p].kind = "removeTeamMember" /\ procs[p].pc = "respond"
    /\ procs' = [procs EXCEPT ![p] = Respond(p, IF procs[p].error THEN 400 ELSE 200)]
    /\ UNCHANGED <<teams, usedTeams, team_members, notifications, content, realtime, faults>>

(* ------------------------------ realtime ------------------------------- *)
Payload(userId, status, teamId) ==
    [userId |-> userId, status |-> status, teamId |-> teamId, message |-> NoMessage,
     mission |-> NoMission]

\* Sockets an emit to a room reaches: io.to(`team:${t}`) reaches the connected
\* sockets joined to the room, io.to(socketId) / socket.emit that socket.
InRoom(room) ==
    {s \in Sockets : sockets[s].state = "live" /\ (room = s \/ room \in sockets[s].rooms)}

\* persisted: the store write the emitting code had just awaited returned no error.
Event(name, room, payload, by, persisted) ==
    [name |-> name, room |-> room, to |-> InRoom(room), payload |-> payload,
     by |-> by, persisted |-> persisted]

ErrorEvent(s, by) == Event("error", s, Payload(None, None, None), by, FALSE)

CanEmit(n) == Len(events) + n <= MaxEvents

\* A lookup that returns every team.
TeamsOfUser_all(u) == Teams

\* DatabaseService.getUserTeams: select from team_members where user_id = u
TeamsOfUser(u) == {m.team_id : m \in {r \in team_members : r.user_id = u}}

\* Connections are interchangeable: socket ids are handed out in order.
FreeSocket(s) ==
    sockets[s].state = "free" /\ (s = "s2" => sockets["s1"].state # "free")

\* The credential of a handshake: socket.handshake.auth.token or the bearer
\* of the authorization header.  kind tells what jwt.verify makes of it.
NoToken == [kind |-> "missing", userId |-> None]

AccessToken(u) == [kind |-> "signed", userId |-> u]

Credentials ==
    {NoToken} \cup {[kind |-> k, userId |-> u] : k \in {"signed", "forged", "expired"},
                                                 u \in Users}

\* A verification that only decodes the token.
VerifyToken_decodeOnly(token) == TRUE

\* JWTService.verifyToken: jwt.verify(token, secret, {issuer, audience}) returns
\* the payload of a token signed with the secret and not expired, and throws
\* on any other.
VerifyToken(token) == token.kind = "signed"

\* A registry that keeps the first session of a user.
Register_keepFirst(u, s) ==
    IF connectedUsers[u] = None THEN [connectedUsers EXCEPT ![u] = s] ELSE connectedUsers

\* this.connectedUsers.set(user.id, socket.id) on a Map<string, string>
Register(u, s) == [connectedUsers EXCEPT ![u] = s]

\* io.on('connection'): socket.data.user is the user the middleware stored;
\* connectedUsers.set(user.id, socket.id); joinUserTeams(...)
OnConnection(s, token) ==
    /\ sockets' = [sockets EXCEPT ![s] = [state |-> "live", user |-> token.userId,
                                          rooms |-> {}, token |-> token]]
    /\ connectedUsers' = Register(token.userId, s)
    /\ joinTasks' = [joinTasks EXCEPT ![s].pc = "getUserTeams"]

\* next(new Error(...)): the connection is refused and the socket closed.
Refuse(s, token) ==
    /\ sockets' = [sockets EXCEPT ![s].state = "refused", ![s].token = token]
    /\ UNCHANGED <<connectedUsers, joinTasks>>

\* io.use middleware up to its await: if (!token) return next(Error);
\* const payload = JWTService.verifyToken(token)
Handshake(s, token) ==
    /\ FreeSocket(s)
    /\ IF token = NoToken \/ ~VerifyToken(token)
       THEN Refuse(s, token)
       ELSE /\ sockets' = [sockets EXCEPT ![s].state = "authenticating", ![s].token = token]
            /\ UNCHANGED <<connectedUsers, joinTasks>>
    /\ UNCHANGED <<teams, usedTeams, team_members, notifications, content,
                   offlineTasks, events, procs, faults>>

\* const user = await DatabaseService.getUserById(payload.userId);
\* socket.data.user = {id: user.id, ...}; next()  -- or catch: next(Error)
Handshake_getUserById(s) ==
    /\ sockets[s].state = "authenticating"
    /\ \E ok \in Outcomes :
         /\ faults' = Spend(ok)
         /\ IF ok THEN OnConnection(s, sockets[s].token) ELSE Refuse(s, sockets[s].token)
    /\ UNCHANGED <<teams, usedTeams, team_members, notifications, content,
                   offlineTasks, events, procs>>

\* A connection that presents a valid access token of user u and whose
\* handshake the store answers.
Connect(s, u) ==
    /\ FreeSocket(s)
    /\ OnConnection(s, AccessToken(u))
    /\ UNCHANGED <<teams, usedTeams, team_members, notifications, content,
                   offlineTasks, events, procs, faults>>

\* joinUserTeams: const userTeams = await getUserTeams(userId)
JoinUserTeams_getUserTeams(s) ==
    /\ joinTasks[s].pc = "getUserTeams"
    /\ \E ok \in Outcomes :
         /\ faults' = Spend(ok)
         /\ joinTasks' = [joinTasks EXCEPT ![s].pc = "join", ![s].error = ~ok,
                             ![s].lookupFailed = ~ok,
                             ![s].snapshot = {t \in Teams : RowsOf(sockets[s].user, t) # {}},
                             ![s].userTeams = IF ok THEN TeamsOfUser(sockets[s].user) ELSE {}]
    /\ UNCHANGED <<teams, usedTeams, team_members, notifications, content,
                   connectedUsers, sockets, offlineTasks, events, procs>>

\* for (const teamMembership of userTeams) socket.join(`team:${teamId}`)
JoinUserTeams_join(s) ==
    /\ joinTasks[s].pc = "join"
    /\ joinTasks' = [joinTasks EXCEPT ![s].pc = "done"]
    /\ sockets' = [sockets EXCEPT ![s].rooms = @ \cup joinTasks[s].userTeams]
    /\ UNCHANGED <<teams, usedTeams, team_members, notifications, content,
                   connectedUsers, offlineTasks, events, procs, faults>>

\* socket.on('join_team', teamId => this.joinTeam(socket, teamId, user.id))
JoinTeamStart(p, s, t) ==
    /\ procs[p].kind = "idle"
    /\ sockets[s].state = "live"
    /\ procs' = [procs EXCEPT ![p] =
                   NewProc("joinTeam", "isTeamMember", sockets[s].user, t, None, None, s)]
    /\ UNCHANGED <<teams, usedTeams, team_members, notifications, content, realtime, faults>>

\* const isMember = await DatabaseService.isTeamMember(userId, teamId).
\* checked, entitled and error record the store and its answer at the check.
JoinTeam_isTeamMember(p) ==
    /\ procs[p].kind = "joinTeam" /\ procs[p].pc = "isTeamMember"
    /\ \E ok \in Outcomes :
         /\ faults' = Spend(ok)
         /\ procs' = [procs EXCEPT ![p].isMember = IsTeamMember(procs[p].user, procs[p].teamId, ok),
                                   ![p].checked = TRUE,
                                   ![p].entitled = RowsOf(procs[p].user, procs[p].teamId) # {},
                                   ![p].error = ~ok,
                                   ![p].pc = "join"]
    /\ UNCHANGED <<teams, usedTeams, team_members, notifications, content, realtime>>

\* if (!isMember) socket.emit('error', ...); else socket.join(`team:${teamId}`).
\* joined and memberAtJoin record the join and the store at that moment.
JoinTeam_join(p) ==
    /\ procs[p].kind = "joinTeam" /\ procs[p].pc = "join"
    /\ IF ~procs[p].isMember
       THEN /\ CanEmit(1)
            /\ events' = Append(events, ErrorEvent(procs[p].socket, p))
            /\ procs' = [procs EXCEPT ![p].pc = "done"]
            /\ UNCHANGED sockets
       ELSE /\ sockets' = [sockets EXCEPT ![procs[p].socket].rooms = @ \cup {procs[p].teamId}]
            /\ procs' = [procs EXCEPT ![p].pc = "done", ![p].joined = TRUE,
                           ![p].memberAtJoin = RowsOf(procs[p].user, procs[p].teamId) # {}]
            /\ UNCHANGED events
    /\ UNCHANGED <<teams, usedTeams, team_members, notifications, content,
                   connectedUsers, joinTasks, offlineTasks, faults>>

\* socket.on('leave_team', teamId => socket.leave(`team:${teamId}`))
LeaveTeam(s, t) ==
    /\ sockets[s].state = "live"
    /\ t \in sockets[s].rooms
    /\ sockets' = [sockets EXCEPT ![s].rooms = @ \ {t}]
    /\ UNCHANGED <<teams, usedTeams, team_members, notifications, content,
                   connectedUsers, joinTasks, offlineTasks, events, procs, faults>>

\* An emit that also reaches the sender.
Excluding_none(S, s) == S

\* socket.to(room): the sockets of the room other than the sending socket.
Excluding(S, s) == S \ {s}

TypingEvents == {i \in 1..Len(events) : events[i].name = "user_typing"}

\* socket.on('typing_start' / 'typing_stop', {teamId}):
\*   socket.to(`team:${teamId}`).emit('user_typing', {userId, isTyping}).
\* present records the sockets joined to the room at the emit.
Typing(s, t, isTyping) ==
    /\ sockets[s].state = "live"
    /\ CanEmit(1) /\ Cardinality(TypingEvents) < MaxTyping
    /\ events' = Append(events,
                    [name |-> "user_typing", room |-> t,
                     to |-> Excluding(InRoom(t), s),
                     payload |-> [userId |-> sockets[s].user, isTyping |-> isTyping],
                     by |-> s,
                     present |-> {x \in Sockets : sockets[x].state = "live"
                                                   /\ t \in sockets[x].rooms}])
    /\ UNCHANGED <<teams, usedTeams, team_members, notifications, content,
                   connectedUsers, sockets, joinTasks, offlineTasks, procs, faults>>

\* A disconnect that leaves the registry as it is.
Disconnect_keepEntry(s) ==
    /\ sockets[s].state = "live"
    /\ sockets' = [sockets EXCEPT ![s].state = "closed", ![s].rooms = {}]
    /\ offlineTasks' = [offlineTasks EXCEPT ![s].pc = "getUserTeams"]
    /\ UNCHANGED <<teams, usedTeams, team_members, notifications, content, connectedUsers,
                   joinTasks, events, procs, faults>>

\* socket.on('disconnect'): connectedUsers.delete(user.id);
\* updateUserOfflineStatus(user.id).  The socket leaves its rooms.
Disconnect(s) ==
    /\ sockets[s].state = "live"
    /\ sockets' = [sockets EXCEPT ![s].state = "closed", ![s].rooms = {}]
    /\ connectedUsers' = [connectedUsers EXCEPT ![sockets[s].user] = None]
    /\ offlineTasks' = [offlineTasks EXCEPT ![s].pc = "getUserTeams"]
    /\ UNCHANGED <<teams, usedTeams, team_members, notifications, content,
                   joinTasks, events, procs, faults>>

\* updateUserOfflineStatus: const userTeams = await getUserTeams(userId)
Offline_getUserTeams(s) ==
    /\ offlineTasks[s].pc = "getUserTeams"
    /\ \E ok \in Outcomes :
         /\ faults' = Spend(ok)
         /\ offlineTasks' = [offlineTasks EXCEPT ![s].pc = "loop", ![s].error = ~ok,
                               ![s].lookupFailed = ~ok,
                               ![s].snapshot = IF ok THEN TeamsOfUser(sockets[s].user) ELSE {},
                               ![s].userTeams = IF ok THEN TeamsOfUser(sockets[s].user) ELSE {}]
    /\ UNCHANGED <<teams, usedTeams, team_members, notifications, content,
                   connectedUsers, sockets, joinTasks, events, procs>>

SetStatus(u, t, status) ==
    {IF m.user_id = u /\ m.team_id = t THEN [m EXCEPT !.status = status] ELSE m
       : m \in team_members}

OfflineEvent(s, t, persisted) ==
    Event("user:status_update", t, Payload(sockets[s].user, "offline", t), s, persisted)

\* A cascade that writes the rows and tells no room.
Offline_silent(s) == <<>>

\* The broadcast that follows the awaited update of team cur; the update's
\* result object is not read.
Offline_broadcast(s) ==
    IF offlineTasks[s].cur = None
    THEN <<>>
    ELSE <<OfflineEvent(s, offlineTasks[s].cur, ~offlineTasks[s].error)>>

\* A loop that gives up at the first update the store refuses.
Offline_abortOnError(s, t, ok) == IF ok THEN offlineTasks[s].userTeams \ {t} ELSE {}

\* The teams still to visit after the update of team t: the awaited update
\* resolves to {data, error} whatever the store answered, so the for-of goes on.
Offline_remaining(s, t, ok) == offlineTasks[s].userTeams \ {t}

\* for (const teamMembership of userTeams) { await update({status: 'offline'});
\*   io.to(`team:${team_id}`).emit('user:status_update', ...) }
Offline_loop(s) ==
    /\ offlineTasks[s].pc = "loop"
    /\ CanEmit(Len(Offline_broadcast(s)))
    /\ events' = events \o Offline_broadcast(s)
    /\ IF offlineTasks[s].userTeams = {}
       THEN /\ offlineTasks' = [offlineTasks EXCEPT ![s].pc = "done", ![s].cur = None]
            /\ UNCHANGED <<team_members, faults>>
       ELSE \E t \in offlineTasks[s].userTeams, ok \in Outcomes :
              /\ faults' = Spend(ok)
              /\ team_members' = IF ok THEN SetStatus(sockets[s].user, t, "offline")
                                 ELSE team_members
              /\ offlineTasks' = [offlineTasks EXCEPT ![s].cur = t, ![s].error = ~ok,
                                    ![s].writeFailed = @ \/ ~ok,
                                    ![s].attempted = @ \cup {t},
                                    ![s].userTeams = Offline_remaining(s, t, ok)]
    /\ UNCHANGED <<teams, usedTeams, notifications, content, connectedUsers, sockets,
                   joinTasks, procs>>

(* ------------------- socket.on('status_update') ------------------------ *)
StatusUpdateStart(p, s, t, status) ==
    /\ procs[p].kind = "idle"
    /\ sockets[s].state = "live"
    /\ procs' = [procs EXCEPT ![p] =
                   NewProc("status_update", "isTeamMember", sockets[s].user, t, None, status, s)]
    /\ UNCHANGED <<teams, usedTeams, team_members, notifications, content, realtime, faults>>

StatusUpdate_isTeamMember(p) ==
    /\ procs[p].kind = "status_update" /\ procs[p].pc = "isTeamMember"
    /\ \E ok \in Outcomes :
         /\ faults' = Spend(ok)
         /\ procs' = [procs EXCEPT ![p].isMember = IsTeamMember(procs[p].user, procs[p].teamId, ok),
                                   ![p].checked = TRUE,
                                   ![p].entitled = RowsOf(procs[p].user, procs[p].teamId) # {},
                                   ![p].pc = "update"]
    /\ UNCHANGED <<teams, usedTeams, team_members, notifications, content, realtime>>

\* if (!isMember) { socket.emit('error'); return }
\* update({status}).eq('user_id', user.id).eq('team_id', teamId)
StatusUpdate_update(p) ==
    /\ procs[p].kind = "status_update" /\ procs[p].pc = "update"
    /\ IF ~procs[p].isMember
       THEN /\ CanEmit(1)
            /\ events' = Append(events, ErrorEvent(procs[p].socket, p))
            /\ procs' = [procs EXCEPT ![p].pc = "done"]
            /\ UNCHANGED <<team_members, faults>>
       ELSE \E ok \in Outcomes :
              /\ faults' = Spend(ok)
              /\ team_members' = IF ok THEN SetStatus(procs[p].user, procs[p].teamId, procs[p].arg)
                                 ELSE team_members
              /\ procs' = [procs EXCEPT ![p].error = ~ok, ![p].wrote = ok, ![p].pc = "broadcast",
                             ![p].held = {m.status : m \in RowsOf(procs[p].user, procs[p].teamId)}]
              /\ UNCHANGED events
    /\ UNCHANGED <<teams, usedTeams, notifications, content, connectedUsers, sockets,
                   joinTasks, offlineTasks>>

\* user_id of the rows getTeamMembers(teamId) returns
Roster(t) == {m.user_id : m \in {r \in team_members : r.team_id = t}}

\* if (error) { socket.emit('error'); return }
\* io.to(`team:${teamId}`).emit('user:status_update', {userId, status, teamId});
\* const teamMembers = await getTeamMembers(teamId)   (throws on a store error)
StatusUpdate_broadcast(p) ==
    /\ procs[p].kind = "status_update" /\ procs[p].pc = "broadcast"
    /\ CanEmit(1)
    /\ IF procs[p].error
       THEN /\ events' = Append(events, ErrorEvent(procs[p].socket, p))
            /\ procs' = [procs EXCEPT ![p].pc = "done"]
            /\ UNCHANGED faults
       ELSE /\ events' = Append(events,
                 Event("user:status_update", procs[p].teamId,
                       Payload(procs[p].user, procs[p].arg, procs[p].teamId), p, ~procs[p].error))
            /\ \E ok \in Outcomes :
                 /\ faults' = Spend(ok)
                 /\ procs' = [procs EXCEPT ![p].error = ~ok, ![p].pc = "getUserById",
                                ![p].roster = IF ok THEN Roster(procs[p].teamId) ELSE {},
                                ![p].teamMembers = IF ok THEN Roster(procs[p].teamId) ELSE {}]
    /\ UNCHANGED <<teams, usedTeams, team_members, notifications, content, connectedUsers,
                   sockets, joinTasks, offlineTasks>>

\* catch (error) { socket.emit('error', {message: 'Failed to update status'}) }
Caught(p) ==
    /\ CanEmit(1)
    /\ events' = Append(events, ErrorEvent(procs[p].socket, p))
    /\ procs' = [procs EXCEPT ![p].pc = "done", ![p].thrown = TRUE]

\* const userDetails = await getUserById(user.id)   (throws on a store error)
StatusUpdate_getUserById(p) ==
    /\ procs[p].kind = "status_update" /\ procs[p].pc = "getUserById"
    /\ IF procs[p].error
       THEN Caught(p) /\ UNCHANGED faults
       ELSE /\ \E ok \in Outcomes :
                 /\ faults' = Spend(ok)
                 /\ procs' = [procs EXCEPT ![p].error = ~ok, ![p].pc = "notify"]
            /\ UNCHANGED events
    /\ UNCHANGED <<teams, usedTeams, team_members, notifications, content, connectedUsers,
                   sockets, joinTasks, offlineTasks>>

\* A loop that skips its recipients when the status written is the one held.
Recipients_changedOnly(p) ==
    IF procs[p].held = {procs[p].arg} THEN {} ELSE procs[p].teamMembers \ {procs[p].user}

\* Members the loop has still to notify: member.user_id !== user.id
Recipients(p) == procs[p].teamMembers \ {procs[p].user}

NotificationEvent(u, type, by) ==
    Event("notification:new", connectedUsers[u], Payload(u, type, None), by, TRUE)

\* A delivery that emits whether or not the registry knows the member.
StatusUpdate_deliverAlways(p) ==
    IF procs[p].cur # None
    THEN <<NotificationEvent(procs[p].cur, "status_change", p)>>
    ELSE <<>>

\* After an awaited createNotification for member cur:
\*   const memberSocketId = this.connectedUsers.get(member.user_id);
\*   if (memberSocketId) io.to(memberSocketId).emit('notification:new', ...)
StatusUpdate_deliver(p) ==
    IF procs[p].cur # None /\ connectedUsers[procs[p].cur] # None
    THEN <<NotificationEvent(procs[p].cur, "status_change", p)>>
    ELSE <<>>

\* for (const member of teamMembers) if (member.user_id !== user.id) {
\*   await createNotification({user_id: member.user_id, type: 'status_change'}); ... }
StatusUpdate_notify(p) ==
    /\ procs[p].kind = "status_update" /\ procs[p].pc = "notify"
    /\ IF procs[p].error
       THEN Caught(p) /\ UNCHANGED <<notifications, faults>>
       ELSE /\ CanEmit(Len(StatusUpdate_deliver(p)))
            /\ events' = events \o StatusUpdate_deliver(p)
            /\ IF Recipients(p) = {}
               THEN /\ procs' = [procs EXCEPT ![p].pc = "done", ![p].cur = None]
                    /\ UNCHANGED <<notifications, faults>>
               ELSE /\ ~NotificationsFull
                    /\ \E m \in Recipients(p), ok \in Outcomes :
                         /\ faults' = Spend(ok)
                         /\ CreateNotification(m, "status_change", p, ok)
                         /\ procs' = [procs EXCEPT ![p].error = ~ok, ![p].cur = m,
                                        ![p].attempted = @ \cup {m},
                                        ![p].owed = IF ok /\ connectedUsers[m] # None
                                                    THEN @ \cup {m} ELSE @,
                                        ![p].failedFor = IF ok THEN @ ELSE @ \cup {m},
                                        ![p].teamMembers = @ \ {m}]
    /\ UNCHANGED <<teams, usedTeams, team_members, content, connectedUsers,
                   sockets, joinTasks, offlineTasks>>

(* -------------------------- EncryptionService -------------------------- *)
\* generateKey(): crypto.randomBytes(32), material not produced before
GenerateKey == Keys \ usedKeys

\* encrypt(plaintext, key): the envelope {content, encryptionKey, iv, tag};
\* the ciphertext and the tag depend on the plaintext and the key.
Encrypt(plaintext, key, iv) ==
    [content |-> <<"aes-256-gcm", plaintext, key>>, encryptionKey |-> key,
     iv |-> iv, tag |-> <<"tag", plaintext, key>>]

\* JSON.stringify(envelope): every field of the envelope, name and value, in
\* the clear.
Stringify(e) ==
    << <<"content", e.content>>, <<"encryptionKey", e.encryptionKey>>,
       <<"iv", e.iv>>, <<"tag", e.tag>> >>

\* content sent as is (is_encrypted = false)
Text(c) == << <<"text", c>> >>

\* Key material a reader of a message content finds in the clear.
KeysExposed(c) ==
    {k \in Keys : \E i \in DOMAIN c : c[i][1] = "encryptionKey" /\ c[i][2] = k}

\* The Node.js the server runs on (README: Node.js 18+): crypto.createCipher
\* and crypto.createDecipher exist up to Node 21 and are removed in Node 22.
Runtimes == {"createCipher", "removed"}

\* UTF-16 code units of a plaintext string: a letter and an unpaired surrogate
CodeUnits == {"a", "D800"}

PlainStrings == UNION {[1..n -> CodeUnits] : n \in 0..MaxLen}

\* cipher.update(plaintext, 'utf8', ...) followed by decipher.update(..., 'utf8'):
\* the UTF-8 encoder writes U+FFFD for an unpaired surrogate.
Utf8RoundTrip(text) == [i \in DOMAIN text |-> IF text[i] = "D800" THEN "FFFD" ELSE text[i]]

\* What a function returns or throws.
Failure == [ok |-> FALSE, text |-> <<>>]

Returned(text) == [ok |-> TRUE, text |-> text]

EnvelopeFields == {"content", "encryptionKey", "iv", "tag"}

\* An envelope as a request body carries it: each field a hex string, a
\* string that is not hex, or absent.
Wire(e) == [f \in EnvelopeFields |-> [form |-> "hex", val |-> e[f]]]

\* Another value of the same field: a flipped byte, another key, another iv.
Altered(f, v) ==
    CASE f = "encryptionKey" -> CHOOSE k \in Keys : k # v
      [] f = "iv" -> CHOOSE iv \in Ivs : iv # v
      [] OTHER -> <<"flipped", v[2], v[3]>>

Tamper(w, f, how) ==
    IF f = None THEN w
    ELSE [w EXCEPT ![f] = IF how = "altered"
                          THEN [form |-> "hex", val |-> Altered(f, w[f].val)]
                          ELSE [form |-> how, val |-> w[f].val]]

\* decrypt(envelope): Buffer.from(x, 'hex') throws on an absent field;
\* createDecipher(ALGORITHM, key) derives key and nonce from the key argument
\* alone, so ivBuffer is never used; a key, ciphertext or tag that is not the
\* one encrypt produced makes decipher.final() throw.
Decrypt(w, rt) ==
    IF /\ rt = "createCipher"
       /\ \A f \in EnvelopeFields : w[f].form # "missing"
       /\ \A f \in EnvelopeFields \ {"iv"} : w[f].form = "hex"
       /\ w.content.val[1] = "aes-256-gcm"
       /\ w.content.val[3] = w.encryptionKey.val
       /\ w.tag.val = <<"tag", w.content.val[2], w.content.val[3]>>
    THEN Returned(Utf8RoundTrip(w.content.val[2]))
    ELSE Failure

\* encryptE2E(plaintext): generateKey(), then encrypt, which throws where
\* crypto.createCipher is not a function.
EncryptE2E(plaintext, key, iv, rt) ==
    IF rt = "createCipher" THEN Returned(Encrypt(plaintext, key, iv)) ELSE Failure

\* decrypt(encryptE2E(plaintext)) on one runtime, with a fresh key
RoundTrip(p, plaintext, rt) ==
    /\ procs[p].kind = "idle"
    /\ GenerateKey # {}
    /\ \E key \in GenerateKey, iv \in Ivs :
         /\ usedKeys' = usedKeys \cup {key}
         /\ procs' = [procs EXCEPT ![p] =
                [NewProc("roundTrip", "done", None, None, None, plaintext, None)
                   EXCEPT !.runtime = rt,
                          !.out = IF EncryptE2E(plaintext, key, iv, rt).ok
                                  THEN Decrypt(Wire(Encrypt(plaintext, key, iv)), rt)
                                  ELSE Failure]]
    /\ UNCHANGED <<teams, usedTeams, team_members, notifications, missions, messages,
                   realtime, faults>>

\* MessageController.decryptMessage: 400 unless the body has content and
\* encryptionKey; decrypt in a try, 400 when it throws, else 200 with the text.
\* w is the envelope of the body, arg what was done to it since encrypt.
DecryptMessage(p, u, w, arg, rt) ==
    /\ procs[p].kind = "idle"
    /\ LET valid == /\ w.content.form # "missing" /\ w.encryptionKey.form # "missing"
                    /\ (w.content.form = "hex" => w.content.val[2] # <<>>)
           out == IF valid THEN Decrypt(w, rt) ELSE Failure
       IN procs' = [procs EXCEPT ![p] =
                [NewProc("decryptMessage", "done", u, None, None, arg, None)
                   EXCEPT !.runtime = rt, !.message = w, !.out = out,
                          !.res = IF out.ok THEN 200 ELSE 400]]
    /\ UNCHANGED <<teams, usedTeams, team_members, notifications, content, realtime, faults>>

(* --------------------- MessageController.sendMessage ------------------- *)
SendMessageStart(p, u, t, arg) ==
    /\ procs[p].kind = "idle"
    /\ procs' = [procs EXCEPT ![p] = NewProc("sendMessage", "isTeamMember", u, t, None, arg, None)]
    /\ UNCHANGED <<teams, usedTeams, team_members, notifications, content, realtime, faults>>

SendMessage_isTeamMember(p) ==
    /\ procs[p].kind = "sendMessage" /\ procs[p].pc = "isTeamMember"
    /\ \E ok \in Outcomes :
         /\ faults' = Spend(ok)
         /\ procs' = [procs EXCEPT ![p].isMember = IsTeamMember(procs[p].user, procs[p].teamId, ok),
                                   ![p].checked = TRUE,
                                   ![p].entitled = RowsOf(procs[p].user, procs[p].teamId) # {},
                                   ![p].pc = "insert"]
    /\ UNCHANGED <<teams, usedTeams, team_members, notifications, content, realtime>>

\* processedContent: JSON.stringify(encryptE2E(content)) if is_encrypted
ProcessedContent(arg, plaintext, key, iv) ==
    IF arg = "encrypted" THEN Stringify(Encrypt(plaintext, key, iv)) ELSE Text(plaintext)

MessageRow(id, t, u, c, arg) ==
    [id |-> id, team_id |-> t, sender_id |-> u, content |-> c,
     is_encrypted |-> (arg = "encrypted")]

\* if (!isMember) 403; encrypt if requested; insert into messages
SendMessage_insert(p) ==
    /\ procs[p].kind = "sendMessage" /\ procs[p].pc = "insert"
    /\ IF ~procs[p].isMember
       THEN /\ procs' = [procs EXCEPT ![p] = Respond(p, 403)]
            /\ UNCHANGED <<messages, usedKeys, faults>>
       ELSE /\ Len(messages) < MaxMessages
            /\ \E ok \in Outcomes, plaintext \in Plaintexts, iv \in Ivs,
                  key \in (IF procs[p].arg = "encrypted" THEN GenerateKey ELSE {None}) :
                 LET row == MessageRow(Len(messages) + 1, procs[p].teamId, procs[p].user,
                                       ProcessedContent(procs[p].arg, plaintext, key, iv),
                                       procs[p].arg)
                     stored == ok /\ procs[p].teamId \in teams
                 IN /\ faults' = Spend(ok)
                    /\ usedKeys' = usedKeys \cup ({key} \ {None})
                    /\ messages' = IF stored THEN Append(messages, row) ELSE messages
                    /\ procs' = [procs EXCEPT ![p].error = ~stored, ![p].wrote = stored,
                                   ![p].encryptionKey = key,
                                   ![p].message = IF stored THEN row ELSE NoMessage,
                                   ![p].pc = "getUserById"]
    /\ UNCHANGED <<teams, usedTeams, team_members, notifications, missions, realtime>>

\* if (error) 400; const sender = await getUserById(req.user.id)
SendMessage_getUserById(p) ==
    /\ procs[p].kind = "sendMessage" /\ procs[p].pc = "getUserById"
    /\ IF procs[p].error
       THEN /\ procs' = [procs EXCEPT ![p] = Respond(p, 400)]
            /\ UNCHANGED faults
       ELSE \E ok \in Outcomes :
              /\ faults' = Spend(ok)
              /\ procs' = [procs EXCEPT ![p].error = ~ok, ![p].pc = "getTeamMembers"]
    /\ UNCHANGED <<teams, usedTeams, team_members, notifications, content, realtime>>

\* catch (error) { res.status(500) }
Caught500(p) == [Respond(p, 500) EXCEPT !.thrown = TRUE]

\* const teamMembers = await getTeamMembers(team_id)
SendMessage_getTeamMembers(p) ==
    /\ procs[p].kind = "sendMessage" /\ procs[p].pc = "getTeamMembers"
    /\ IF procs[p].error
       THEN /\ procs' = [procs EXCEPT ![p] = Caught500(p)]
            /\ UNCHANGED faults
       ELSE \E ok \in Outcomes :
              /\ faults' = Spend(ok)
              /\ procs' = [procs EXCEPT ![p].error = ~ok, ![p].pc = "notify",
                             ![p].roster = IF ok THEN Roster(procs[p].teamId) ELSE {},
                             ![p].teamMembers = IF ok THEN Roster(procs[p].teamId) ELSE {}]
    /\ UNCHANGED <<teams, usedTeams, team_members, notifications, content, realtime>>

\* broadcastNewMessage: io.to(`team:${teamId}`).emit('message:new', {message, teamId})
BroadcastNewMessage(message, t, by) ==
    Event("message:new", t, [Payload(None, None, t) EXCEPT !.message = message], by, TRUE)

\* the loop's next awaited createNotification, for member m; owed records
\* the members whose row was created while the registry held a session of theirs
NotifyNext(p, m, type, ok) ==
    /\ faults' = Spend(ok)
    /\ CreateNotification(m, type, p, ok)
    /\ procs' = [procs EXCEPT ![p].error = ~ok, ![p].cur = m,
                   ![p].attempted = @ \cup {m},
                   ![p].owed = IF ok /\ connectedUsers[m] # None THEN @ \cup {m} ELSE @,
                   ![p].failedFor = IF ok THEN @ ELSE @ \cup {m},
                   ![p].teamMembers = @ \ {m}]

\* for (const member of otherMembers) await createNotification({type: 'message'});
\* wsService.broadcastNewMessage(messageWithSender, team_id);
\* res.status(201).json({data: {message, encryptionKey}})
SendMessage_notify(p) ==
    /\ procs[p].kind = "sendMessage" /\ procs[p].pc = "notify"
    /\ IF procs[p].error
       THEN /\ procs' = [procs EXCEPT ![p] = Caught500(p)]
            /\ UNCHANGED <<notifications, events, faults>>
       ELSE IF Recipients(p) = {}
       THEN /\ CanEmit(1)
            /\ events' = Append(events,
                            BroadcastNewMessage(procs[p].message, procs[p].teamId, p))
            /\ procs' = [procs EXCEPT ![p] =
                           [Respond(p, 201) EXCEPT !.resKey = procs[p].encryptionKey]]
            /\ UNCHANGED <<notifications, faults>>
       ELSE /\ ~NotificationsFull
            /\ \E m \in Recipients(p), ok \in Outcomes : NotifyNext(p, m, "message", ok)
            /\ UNCHANGED events
    /\ UNCHANGED <<teams, usedTeams, team_members, content, connectedUsers,
                   sockets, joinTasks, offlineTasks>>

(* ---------------------------- MissionController ------------------------ *)
MissionRow(id, t, status, u) ==
    [id |-> id, team_id |-> t, status |-> status, created_by |-> u]

MissionsWithId(id) == {m \in missions : m.id = id}

\* broadcastMissionUpdate: io.to(`team:${teamId}`).emit('mission:status_update', ...)
BroadcastMissionUpdate(mission, t, by) ==
    Event("mission:status_update", t, [Payload(None, None, t) EXCEPT !.mission = mission],
          by, TRUE)

CreateMissionStart(p, u, t) ==
    /\ procs[p].kind = "idle"
    /\ procs' = [procs EXCEPT ![p] = NewProc("createMission", "isTeamLeader", u, t, None, None, None)]
    /\ UNCHANGED <<teams, usedTeams, team_members, notifications, content, realtime, faults>>

CreateMission_isTeamLeader(p) ==
    /\ procs[p].kind = "createMission" /\ procs[p].pc = "isTeamLeader"
    /\ \E ok \in Outcomes :
         /\ faults' = Spend(ok)
         /\ procs' = [procs EXCEPT ![p].isLeader = IsTeamLeader(procs[p].user, procs[p].teamId, ok),
                        ![p].checked = TRUE,
                        ![p].entitled = RowsOf(procs[p].user, procs[p].teamId) \cap
                                           LeadersOf(procs[p].teamId) # {},
                        ![p].pc = "insert"]
    /\ UNCHANGED <<teams, usedTeams, team_members, notifications, content, realtime>>

\* if (!isLeader) 403; insert into missions {..., status: 'planned'}
CreateMission_insert(p) ==
    /\ procs[p].kind = "createMission" /\ procs[p].pc = "insert"
    /\ IF ~procs[p].isLeader
       THEN /\ procs' = [procs EXCEPT ![p] = Respond(p, 403)]
            /\ UNCHANGED <<missions, faults>>
       ELSE /\ Missions \ {m.id : m \in missions} # {}
            /\ \E ok \in Outcomes, id \in Missions \ {m.id : m \in missions} :
                 LET stored == ok /\ procs[p].teamId \in teams
                 IN /\ faults' = Spend(ok)
                    /\ missions' = IF stored
                                   THEN missions \cup {MissionRow(id, procs[p].teamId,
                                                                  "planned", procs[p].user)}
                                   ELSE missions
                    /\ procs' = [procs EXCEPT ![p].error = ~stored, ![p].wrote = stored,
                                   ![p].missionId = IF stored THEN id ELSE None,
                                   ![p].pc = "getMissionDetails"]
    /\ UNCHANGED <<teams, usedTeams, team_members, notifications, messages, usedKeys, realtime>>

\* getMissionDetails(id): throws on a store error or when no row matches
GetMissionDetails(p, id, ok, pc) ==
    LET found == ok /\ MissionsWithId(id) # {}
    IN /\ faults' = Spend(ok)
       /\ procs' = [procs EXCEPT ![p].error = ~found, ![p].pc = pc,
                      ![p].missionDetails =
                          IF found THEN CHOOSE m \in MissionsWithId(id) : TRUE ELSE NoMission]

\* if (error) 400; const missionDetails = await getMissionDetails(mission.id)
CreateMission_getMissionDetails(p) ==
    /\ procs[p].kind = "createMission" /\ procs[p].pc = "getMissionDetails"
    /\ IF procs[p].error
       THEN /\ procs' = [procs EXCEPT ![p] = Respond(p, 400)]
            /\ UNCHANGED faults
       ELSE \E ok \in Outcomes : GetMissionDetails(p, procs[p].missionId, ok, "getTeamMembers")
    /\ UNCHANGED <<teams, usedTeams, team_members, notifications, content, realtime>>

\* const teamMembers = await getTeamMembers(team_id)
CreateMission_getTeamMembers(p) ==
    /\ procs[p].kind = "createMission" /\ procs[p].pc = "getTeamMembers"
    /\ IF procs[p].error
       THEN /\ procs' = [procs EXCEPT ![p] = Caught500(p)]
            /\ UNCHANGED faults
       ELSE \E ok \in Outcomes :
              /\ faults' = Spend(ok)
              /\ procs' = [procs EXCEPT ![p].error = ~ok, ![p].pc = "notify",
                             ![p].roster = IF ok THEN Roster(procs[p].teamId) ELSE {},
                             ![p].teamMembers = IF ok THEN Roster(procs[p].teamId) ELSE {}]
    /\ UNCHANGED <<teams, usedTeams, team_members, notifications, content, realtime>>

\* for (const member of teamMembers) await createNotification({type: 'mission_update'});
\* wsService.broadcastMissionUpdate(missionDetails, team_id); res.status(201)
CreateMission_notify(p) ==
    /\ procs[p].kind = "createMission" /\ procs[p].pc = "notify"
    /\ IF procs[p].error
       THEN /\ procs' = [procs EXCEPT ![p] = Caught500(p)]
            /\ UNCHANGED <<notifications, events, faults>>
       ELSE IF procs[p].teamMembers = {}
       THEN /\ CanEmit(1)
            /\ events' = Append(events,
                            BroadcastMissionUpdate(procs[p].missionDetails, procs[p].teamId, p))
            /\ procs' = [procs EXCEPT ![p] = Respond(p, 201)]
            /\ UNCHANGED <<notifications, faults>>
       ELSE /\ ~NotificationsFull
            /\ \E m \in procs[p].teamMembers, ok \in Outcomes :
                 NotifyNext(p, m, "mission_update", ok)
            /\ UNCHANGED events
    /\ UNCHANGED <<teams, usedTeams, team_members, content, connectedUsers,
                   sockets, joinTasks, offlineTasks>>

\* PUT /missions/:missionId with body {status}; arg = None: no status in the body
UpdateMissionStart(p, u, id, arg) ==
    /\ procs[p].kind = "idle"
    /\ procs' = [procs EXCEPT ![p] =
                   [NewProc("updateMission", "getMissionDetails", u, None, None, arg, None)
                      EXCEPT !.missionId = id]]
    /\ UNCHANGED <<teams, usedTeams, team_members, notifications, content, realtime, faults>>

\* const missionDetails = await getMissionDetails(missionId)
UpdateMission_getMissionDetails(p) ==
    /\ procs[p].kind = "updateMission" /\ procs[p].pc = "getMissionDetails"
    /\ \E ok \in Outcomes : GetMissionDetails(p, procs[p].missionId, ok, "isTeamLeader")
    /\ UNCHANGED <<teams, usedTeams, team_members, notifications, content, realtime>>

\* isTeamLeader(req.user.id, missionDetails.team_id)
UpdateMission_isTeamLeader(p) ==
    /\ procs[p].kind = "updateMission" /\ procs[p].pc = "isTeamLeader"
    /\ IF procs[p].error
       THEN /\ procs' = [procs EXCEPT ![p] = Caught500(p)]
            /\ UNCHANGED faults
       ELSE \E ok \in Outcomes :
              LET t == procs[p].missionDetails.team_id
              IN /\ faults' = Spend(ok)
                 /\ procs' = [procs EXCEPT ![p].teamId = t,
                                ![p].isLeader = IsTeamLeader(procs[p].user, t, ok),
                                ![p].checked = TRUE,
                                ![p].entitled = RowsOf(procs[p].user, t) \cap LeadersOf(t) # {},
                                ![p].pc = "update"]
    /\ UNCHANGED <<teams, usedTeams, team_members, notifications, content, realtime>>

\* update(updateData).eq('id', missionId): status is set if the body has one
SetMissionStatus(id, arg) ==
    {IF m.id = id /\ arg # None THEN [m EXCEPT !.status = arg] ELSE m : m \in missions}

\* if (!isLeader) 403; update ... .select().single()
UpdateMission_update(p) ==
    /\ procs[p].kind = "updateMission" /\ procs[p].pc = "update"
    /\ IF ~procs[p].isLeader
       THEN /\ procs' = [procs EXCEPT ![p] = Respond(p, 403)]
            /\ UNCHANGED <<missions, faults>>
       ELSE \E ok \in Outcomes :
              LET stored == ok /\ MissionsWithId(procs[p].missionId) # {}
              IN /\ faults' = Spend(ok)
                 /\ missions' = IF stored THEN SetMissionStatus(procs[p].missionId, procs[p].arg)
                                ELSE missions
                 /\ procs' = [procs EXCEPT ![p].error = ~stored, ![p].wrote = stored,
                                ![p].pc = "afterUpdate",
                                ![p].held = {m.status : m \in MissionsWithId(procs[p].missionId)}]
    /\ UNCHANGED <<teams, usedTeams, team_members, notifications, messages, usedKeys, realtime>>

\* status && status !== missionDetails.status
StatusChanged(p) == procs[p].arg # None /\ procs[p].arg # procs[p].missionDetails.status

\* if (error) 400; if the status changed: getTeamMembers(missionDetails.team_id);
\* otherwise straight to getMissionDetails(missionId)
UpdateMission_afterUpdate(p) ==
    /\ procs[p].kind = "updateMission" /\ procs[p].pc = "afterUpdate"
    /\ IF procs[p].error
       THEN /\ procs' = [procs EXCEPT ![p] = Respond(p, 400)]
            /\ UNCHANGED faults
       ELSE IF StatusChanged(p)
       THEN \E ok \in Outcomes :
              /\ faults' = Spend(ok)
              /\ procs' = [procs EXCEPT ![p].error = ~ok, ![p].pc = "notify",
                             ![p].roster = IF ok THEN Roster(procs[p].teamId) ELSE {},
                             ![p].teamMembers = IF ok THEN Roster(procs[p].teamId) ELSE {}]
       ELSE \E ok \in Outcomes : GetMissionDetails(p, procs[p].missionId, ok, "broadcast")
    /\ UNCHANGED <<teams, usedTeams, team_members, notifications, content, realtime>>

\* for (const member of teamMembers) await createNotification({type: 'mission_update'});
\* const updatedMissionDetails = await getMissionDetails(missionId)
UpdateMission_notify(p) ==
    /\ procs[p].kind = "updateMission" /\ procs[p].pc = "notify"
    /\ IF procs[p].error
       THEN /\ procs' = [procs EXCEPT ![p] = Caught500(p)]
            /\ UNCHANGED <<notifications, faults>>
       ELSE IF procs[p].teamMembers = {}
       THEN /\ \E ok \in Outcomes : GetMissionDetails(p, procs[p].missionId, ok, "broadcast")
            /\ UNCHANGED notifications
       ELSE /\ ~NotificationsFull
            /\ \E m \in procs[p].teamMembers, ok \in Outcomes :
                 NotifyNext(p, m, "mission_update", ok)
    /\ UNCHANGED <<teams, usedTeams, team_members, content, realtime>>

\* wsService.broadcastMissionUpdate(updatedMissionDetails, missionDetails.team_id); res.json
UpdateMission_broadcast(p) ==
    /\ procs[p].kind = "updateMission" /\ procs[p].pc = "broadcast"
    /\ IF procs[p].error
       THEN /\ procs' = [procs EXCEPT ![p] = Caught500(p)]
            /\ UNCHANGED events
       ELSE /\ CanEmit(1)
            /\ events' = Append(events,
                            BroadcastMissionUpdate(procs[p].missionDetails, procs[p].teamId, p))
            /\ procs' = [procs EXCEPT ![p] = Respond(p, 200)]
    /\ UNCHANGED <<teams, usedTeams, team_members, notifications, content, connectedUsers,
                   sockets, joinTasks, offlineTasks, faults>>

\* DELETE /missions/:missionId
DeleteMissionStart(p, u, id) ==
    /\ procs[p].kind = "idle"
    /\ procs' = [procs EXCEPT ![p] =
                   [NewProc("deleteMission", "getMissionDetails", u, None, None, None, None)
                      EXCEPT !.missionId = id]]
    /\ UNCHANGED <<teams, usedTeams, team_members, notifications, content, realtime, faults>>

\* const missionDetails = await getMissionDetails(missionId)
DeleteMission_getMissionDetails(p) ==
    /\ procs[p].kind = "deleteMission" /\ procs[p].pc = "getMissionDetails"
    /\ \E ok \in Outcomes : GetMissionDetails(p, procs[p].missionId, ok, "isTeamLeader")
    /\ UNCHANGED <<teams, usedTeams, team_members, notifications, content, realtime>>

\* isTeamLeader(req.user.id, missionDetails.team_id)
DeleteMission_isTeamLeader(p) ==
    /\ procs[p].kind = "deleteMission" /\ procs[p].pc = "isTeamLeader"
    /\ IF procs[p].error
       THEN /\ procs' = [procs EXCEPT ![p] = Caught500(p)]
            /\ UNCHANGED faults
       ELSE \E ok \in Outcomes :
              LET t == procs[p].missionDetails.team_id
              IN /\ faults' = Spend(ok)
                 /\ procs' = [procs EXCEPT ![p].teamId = t,
                                ![p].isLeader = IsTeamLeader(procs[p].user, t, ok),
                                ![p].checked = TRUE,
                                ![p].entitled = RowsOf(procs[p].user, t) \cap LeadersOf(t) # {},
                                ![p].pc = "delete"]
    /\ UNCHANGED <<teams, usedTeams, team_members, notifications, content, realtime>>

\* if (!isLeader) 403; delete().eq('id', missionId)
DeleteMission_delete(p) ==
    /\ procs[p].kind = "deleteMission" /\ procs[p].pc = "delete"
    /\ IF ~procs[p].isLeader
       THEN /\ procs' = [procs EXCEPT ![p] = Respond(p, 403)]
            /\ UNCHANGED <<missions, faults>>
       ELSE \E ok \in Outcomes :
              /\ faults' = Spend(ok)
              /\ missions' = IF ok THEN missions \ MissionsWithId(procs[p].missionId)
                             ELSE missions
              /\ procs' = [procs EXCEPT ![p].error = ~ok, ![p].wrote = ok, ![p].pc = "respond"]
    /\ UNCHANGED <<teams, usedTeams, team_members, notifications, messages, usedKeys, realtime>>

\* if (error) 400; res.json({success: true})
DeleteMission_respond(p) ==
    /\ procs[p].kind = "deleteMission" /\ procs[p].pc = "respond"
    /\ procs' = [procs EXCEPT ![p] = Respond(p, IF procs[p].error THEN 400 ELSE 200)]
    /\ UNCHANGED <<teams, usedTeams, team_members, notifications, content, realtime, faults>>

(* ------------------- TeamController.updateUserStatus ------------------- *)
\* PUT /teams/:teamId/status: requireTeamMember('teamId'), then the controller
UpdateUserStatusStart(p, u, t, status) ==
    /\ procs[p].kind = "idle"
    /\ procs' = [procs EXCEPT ![p] =
                   NewProc("updateUserStatus", "requireTeamMember", u, t, None, status, None)]
    /\ UNCHANGED <<teams, usedTeams, team_members, notifications, content, realtime, faults>>

\* requireTeamMember: const isMember = await isTeamMember(req.user.id, teamId)
UpdateUserStatus_requireTeamMember(p) ==
    /\ procs[p].kind = "updateUserStatus" /\ procs[p].pc = "requireTeamMember"
    /\ \E ok \in Outcomes :
         /\ faults' = Spend(ok)
         /\ procs' = [procs EXCEPT ![p].isMember = IsTeamMember(procs[p].user, procs[p].teamId, ok),
                                   ![p].checked = TRUE,
                                   ![p].entitled = RowsOf(procs[p].user, procs[p].teamId) # {},
                                   ![p].pc = "isTeamMember"]
    /\ UNCHANGED <<teams, usedTeams, team_members, notifications, content, realtime>>

\* requireTeamMember: if (!isMember) 403; else next(): the controller's own
\* isTeamMember(req.user.id, teamId)
UpdateUserStatus_isTeamMember(p) ==
    /\ procs[p].kind = "updateUserStatus" /\ procs[p].pc = "isTeamMember"
    /\ IF ~procs[p].isMember
       THEN /\ procs' = [procs EXCEPT ![p] = Respond(p, 403)]
            /\ UNCHANGED faults
       ELSE \E ok \in Outcomes :
              /\ faults' = Spend(ok)
              /\ procs' = [procs EXCEPT ![p].isMember = IsTeamMember(procs[p].user, procs[p].teamId, ok),
                             ![p].checked = TRUE,
                             ![p].entitled = RowsOf(procs[p].user, procs[p].teamId) # {},
                             ![p].pc = "update"]
    /\ UNCHANGED <<teams, usedTeams, team_members, notifications, content, realtime>>

\* if (!isMember) 403; update({status}) ... .select().single()
UpdateUserStatus_update(p) ==
    /\ procs[p].kind = "updateUserStatus" /\ procs[p].pc = "update"
    /\ IF ~procs[p].isMember
       THEN /\ procs' = [procs EXCEPT ![p] = Respond(p, 403)]
            /\ UNCHANGED <<team_members, faults>>
       ELSE \E ok \in Outcomes :
              LET stored == ok /\ Cardinality(RowsOf(procs[p].user, procs[p].teamId)) = 1
              IN /\ faults' = Spend(ok)
                 /\ team_members' = IF stored
                                    THEN SetStatus(procs[p].user, procs[p].teamId, procs[p].arg)
                                    ELSE team_members
                 /\ procs' = [procs EXCEPT ![p].error = ~stored, ![p].wrote = stored,
                                ![p].pc = "getTeamMembers",
                                ![p].held = {m.status : m \in RowsOf(procs[p].user, procs[p].teamId)}]
    /\ UNCHANGED <<teams, usedTeams, notifications, content, realtime>>

\* if (error) 400; const teamMembers = await getTeamMembers(teamId)
UpdateUserStatus_getTeamMembers(p) ==
    /\ procs[p].kind = "updateUserStatus" /\ procs[p].pc = "getTeamMembers"
    /\ IF procs[p].error
       THEN /\ procs' = [procs EXCEPT ![p] = Respond(p, 400)]
            /\ UNCHANGED faults
       ELSE \E ok \in Outcomes :
              /\ faults' = Spend(ok)
              /\ procs' = [procs EXCEPT ![p].error = ~ok, ![p].pc = "getUserById",
                             ![p].roster = IF ok THEN Roster(procs[p].teamId) ELSE {},
                             ![p].teamMembers = IF ok THEN Roster(procs[p].teamId) ELSE {}]
    /\ UNCHANGED <<teams, usedTeams, team_members, notifications, content, realtime>>

\* const user = await getUserById(req.user.id)
UpdateUserStatus_getUserById(p) ==
    /\ procs[p].kind = "updateUserStatus" /\ procs[p].pc = "getUserById"
    /\ IF procs[p].error
       THEN /\ procs' = [procs EXCEPT ![p] = Caught500(p)]
            /\ UNCHANGED faults
       ELSE \E ok \in Outcomes :
              /\ faults' = Spend(ok)
              /\ procs' = [procs EXCEPT ![p].error = ~ok, ![p].pc = "notify"]
    /\ UNCHANGED <<teams, usedTeams, team_members, notifications, content, realtime>>

\* for (const member of teamMembers) if (member.user_id !== req.user.id)
\*   await createNotification({type: 'status_change'});   res.json(...)
UpdateUserStatus_notify(p) ==
    /\ procs[p].kind = "updateUserStatus" /\ procs[p].pc = "notify"
    /\ IF procs[p].error
       THEN /\ procs' = [procs EXCEPT ![p] = Caught500(p)]
            /\ UNCHANGED <<notifications, faults>>
       ELSE IF Recipients(p) = {}
       THEN /\ procs' = [procs EXCEPT ![p] = Respond(p, 200)]
            /\ UNCHANGED <<notifications, faults>>
       ELSE /\ ~NotificationsFull
            /\ \E m \in Recipients(p), ok \in Outcomes : NotifyNext(p, m, "status_change", ok)
    /\ UNCHANGED <<teams, usedTeams, team_members, content, realtime>>

(* ------------ NotificationController.markAsRead / markAllAsRead ------- *)
\* A filter that matches the rows of every user.
OwnedBy_any(i, u) == TRUE

\* .eq('user_id', userId) on row i of notifications
OwnedBy(i, u) == notifications[i].user_id = u

\* PUT /notifications/:notificationId/read; the row's id is its position
MarkAsReadStart(p, u, id) ==
    /\ procs[p].kind = "idle"
    /\ procs' = [procs EXCEPT ![p] = NewProc("markAsRead", "update", u, None, None, id, None)]
    /\ UNCHANGED <<teams, usedTeams, team_members, notifications, content, realtime, faults>>

\* markNotificationAsRead: update({read: true}).eq('id', id).eq('user_id', userId)
\*   .select().single(); throws when the store fails or no row matches
MarkAsRead_update(p) ==
    /\ procs[p].kind = "markAsRead" /\ procs[p].pc = "update"
    /\ \E ok \in Outcomes :
         LET found == /\ ok /\ procs[p].arg \in 1..Len(notifications)
                      /\ OwnedBy(procs[p].arg, procs[p].user)
         IN /\ faults' = Spend(ok)
            /\ notifications' = IF found
                                 THEN [notifications EXCEPT ![procs[p].arg].read = TRUE]
                                 ELSE notifications
            /\ procs' = [procs EXCEPT ![p].error = ~found, ![p].wrote = found,
                           ![p].pc = "respond"]
    /\ UNCHANGED <<teams, usedTeams, team_members, content, realtime>>

\* res.json({success: true, data: notification}), or catch: 500
MarkAsRead_respond(p) ==
    /\ procs[p].kind = "markAsRead" /\ procs[p].pc = "respond"
    /\ procs' = [procs EXCEPT ![p] = IF procs[p].error THEN Caught500(p) ELSE Respond(p, 200)]
    /\ UNCHANGED <<teams, usedTeams, team_members, notifications, content, realtime, faults>>

\* PUT /notifications/read-all
MarkAllAsReadStart(p, u) ==
    /\ procs[p].kind = "idle"
    /\ procs' = [procs EXCEPT ![p] = NewProc("markAllAsRead", "update", u, None, None, None, None)]
    /\ UNCHANGED <<teams, usedTeams, team_members, notifications, content, realtime, faults>>

\* update({read: true}).eq('user_id', req.user.id).eq('read', false)
MarkAllAsRead_update(p) ==
    /\ procs[p].kind = "markAllAsRead" /\ procs[p].pc = "update"
    /\ \E ok \in Outcomes :
         /\ faults' = Spend(ok)
         /\ notifications' =
              IF ok
              THEN [i \in 1..Len(notifications) |->
                      IF OwnedBy(i, procs[p].user) /\ ~notifications[i].read
                      THEN [notifications[i] EXCEPT !.read = TRUE]
                      ELSE notifications[i]]
              ELSE notifications
         /\ procs' = [procs EXCEPT ![p].error = ~ok, ![p].wrote = ok, ![p].pc = "respond"]
    /\ UNCHANGED <<teams, usedTeams, team_members, content, realtime>>

\* if (error) 400; res.json({success: true})
MarkAllAsRead_respond(p) ==
    /\ procs[p].kind = "markAllAsRead" /\ procs[p].pc = "respond"
    /\ procs' = [procs EXCEPT ![p] = Respond(p, IF procs[p].error THEN 400 ELSE 200)]
    /\ UNCHANGED <<teams, usedTeams, team_members, notifications, content, realtime, faults>>

(* ------------- NotificationController.createNotification --------------- *)
\* Users whose users row has role 'admin' (req.user.role, read by
\* authenticateToken).
Admins == {"u3"}

IsAdmin(u) == u \in Admins

\* POST /notifications with body {user_id: x, type: 'alert'}
CreateNotificationStart(p, u, x) ==
    /\ procs[p].kind = "idle"
    /\ procs' = [procs EXCEPT ![p] =
                   NewProc("createNotification", "insert", u, None, x, None, None)]
    /\ UNCHANGED <<teams, usedTeams, team_members, notifications, content, realtime, faults>>

\* if (req.user.role !== 'admin' && req.body.user_id !== req.user.id) 403;
\* await DatabaseService.createNotification({user_id, ...}); 201, or catch: 500
CreateNotification_insert(p) ==
    /\ procs[p].kind = "createNotification" /\ procs[p].pc = "insert"
    /\ IF ~IsAdmin(procs[p].user) /\ procs[p].userId # procs[p].user
       THEN /\ procs' = [procs EXCEPT ![p] = Respond(p, 403)]
            /\ UNCHANGED <<notifications, faults>>
       ELSE /\ ~NotificationsFull
            /\ \E ok \in Outcomes :
                 /\ faults' = Spend(ok)
                 /\ CreateNotification(procs[p].userId, "alert", p, ok)
                 /\ procs' = [procs EXCEPT ![p] =
                                IF ok THEN Respond(p, 201) ELSE Caught500(p)]
    /\ UNCHANGED <<teams, usedTeams, team_members, content, realtime>>

(* ------------- NotificationController.createBulkNotifications ---------- *)
\* POST /notifications/bulk with body {teamId, type, excludeUserId}
CreateBulkNotificationsStart(p, u, t, excludeUserId) ==
    /\ procs[p].kind = "idle"
    /\ procs' = [procs EXCEPT ![p] =
                   NewProc("createBulkNotifications", "isTeamMember", u, t, excludeUserId,
                           "alert", None)]
    /\ UNCHANGED <<teams, usedTeams, team_members, notifications, content, realtime, faults>>

CreateBulkNotifications_isTeamMember(p) ==
    /\ procs[p].kind = "createBulkNotifications" /\ procs[p].pc = "isTeamMember"
    /\ \E ok \in Outcomes :
         /\ faults' = Spend(ok)
         /\ procs' = [procs EXCEPT ![p].isMember = IsTeamMember(procs[p].user, procs[p].teamId, ok),
                                   ![p].checked = TRUE,
                                   ![p].entitled = RowsOf(procs[p].user, procs[p].teamId) # {},
                                   ![p].pc = "getTeamMembers"]
    /\ UNCHANGED <<teams, usedTeams, team_members, notifications, content, realtime>>

\* if (!isMember) 403; const teamMembers = await getTeamMembers(teamId)
CreateBulkNotifications_getTeamMembers(p) ==
    /\ procs[p].kind = "createBulkNotifications" /\ procs[p].pc = "getTeamMembers"
    /\ IF ~procs[p].isMember
       THEN /\ procs' = [procs EXCEPT ![p] = Respond(p, 403)]
            /\ UNCHANGED faults
       ELSE \E ok \in Outcomes :
              /\ faults' = Spend(ok)
              /\ procs' = [procs EXCEPT ![p].error = ~ok, ![p].pc = "createAll",
                             ![p].roster = IF ok THEN Roster(procs[p].teamId) ELSE {},
                             ![p].teamMembers = IF ok THEN Roster(procs[p].teamId) ELSE {}]
    /\ UNCHANGED <<teams, usedTeams, team_members, notifications, content, realtime>>

\* teamMembers.filter(m => m.user_id !== excludeUserId && m.user_id !== req.user.id)
TargetMembers(p) == procs[p].teamMembers \ {procs[p].userId, procs[p].user}

RECURSIVE NotificationRows(_, _, _)
NotificationRows(S, type, p) ==
    IF S = {} THEN <<>>
    ELSE LET u == CHOOSE x \in S : TRUE
         IN <<Notification(u, type, p)>> \o NotificationRows(S \ {u}, type, p)

\* await Promise.all(targetMembers.map(m => createNotification(...))): every
\* insert is issued; the members in failed are those whose insert returns an error.
CreateBulkNotifications_createAll(p) ==
    /\ procs[p].kind = "createBulkNotifications" /\ procs[p].pc = "createAll"
    /\ IF procs[p].error
       THEN /\ procs' = [procs EXCEPT ![p] = Caught500(p)]
            /\ UNCHANGED <<notifications, faults>>
       ELSE \E failed \in SUBSET TargetMembers(p) :
              /\ Cardinality(failed) <= faults
              /\ Len(notifications) + Cardinality(TargetMembers(p) \ failed) <= MaxNotifications
              /\ faults' = faults - Cardinality(failed)
              /\ notifications' = notifications \o
                     NotificationRows(TargetMembers(p) \ failed, procs[p].arg, p)
              /\ procs' = [procs EXCEPT ![p].error = failed # {}, ![p].pc = "respond",
                             ![p].attempted = TargetMembers(p), ![p].failedFor = failed]
    /\ UNCHANGED <<teams, usedTeams, team_members, content, realtime>>

\* res.status(201).json({data: {created, notifications}}), or, when any insert
\* was rejected, catch: res.status(500).json({error, message})
CreateBulkNotifications_respond(p) ==
    /\ procs[p].kind = "createBulkNotifications" /\ procs[p].pc = "respond"
    /\ procs' = [procs EXCEPT ![p] =
                   IF procs[p].error THEN Caught500(p)
                   ELSE [Respond(p, 201) EXCEPT !.created = procs[p].attempted]]
    /\ UNCHANGED <<teams, usedTeams, team_members, notifications, content, realtime, faults>>

(* ------------------------------ team requests -------------------------- *)
\* The store after createTeam by u1 (team t1) and zero or more addTeamMember.
InitBase ==
    /\ notifications = <<>>
    /\ messages = <<>>
    /\ usedKeys = {}
    /\ connectedUsers = [u \in Users |-> None]
    /\ sockets = [s \in Sockets |-> [state |-> "free", user |-> None, rooms |-> {},
                                        token |-> NoToken]]
    /\ joinTasks = [s \in Sockets |-> NoTask]
    /\ offlineTasks = [s \in Sockets |-> NoTask]
    /\ events = <<>>
    /\ procs = [p \in Procs |-> Idle]

InitTeam ==
    /\ InitBase
    /\ missions = {}
    /\ teams = {"t1"}
    /\ usedTeams = {"t1"}
    /\ faults = MaxStoreFailures
    /\ \E r2 \in {None, "leader", "member"}, r3 \in {None, "member"} :
         team_members = {MemberRow("t1", "u1", "leader", "offline")} \cup
             (IF r2 = None THEN {} ELSE {MemberRow("t1", "u2", r2, "offline")}) \cup
             (IF r3 = None THEN {} ELSE {MemberRow("t1", "u3", r3, "offline")})

NextTeam ==
    \E p \in Procs :
       \/ \E u \in Users : FreeSlot(p) /\ CreateTeamStart(p, u)
       \/ CreateTeam_insertTeam(p)
       \/ CreateTeam_insertMember(p)
       \/ CreateTeam_afterMember(p)
       \/ CreateTeam_respond(p)
       \/ \E u, x \in Users, t \in usedTeams, r \in {"leader", "member"} :
             FreeSlot(p) /\ AddTeamMemberStart(p, u, t, x, r)
       \/ AddTeamMember_isTeamLeader(p)
       \/ AddTeamMember_isTeamMember(p)
       \/ AddTeamMember_insert(p)
       \/ AddTeamMember_getUserById(p)
       \/ AddTeamMember_createNotification(p)
       \/ AddTeamMember_respond(p)
       \/ \E u, x \in Users, t \in usedTeams :
             FreeSlot(p) /\ RemoveTeamMemberStart(p, u, t, x)
       \/ RemoveTeamMember_isTeamLeader(p)
       \/ RemoveTeamMember_authorize(p)
       \/ RemoveTeamMember_checkLeaders(p)
       \/ RemoveTeamMember_respond(p)

SpecTeam == InitTeam /\ [][NextTeam]_vars

(* --------------------------- team properties --------------------------- *)
HasRows(t) == \E m \in team_members : m.team_id = t

\* C5: while the store answers every call, every team that has membership
\* rows has at least one row with role = leader, whatever the interleaving of
\* createTeam, addTeamMember and removeTeamMember.
C5_NoLeaderlessTeam ==
    faults = MaxStoreFailures => \A t \in Teams : HasRows(t) => LeadersOf(t) # {}

\* C6: a removeTeamMember by a leader for themself deletes that leader row
\* only when the team held at least two leader rows at that moment.
C6_LastLeaderKept ==
    \A p \in Procs :
        (procs[p].kind = "removeTeamMember" /\ IsRemovingSelf(p) /\ procs[p].removedLeader)
        => procs[p].leadersAtDelete >= 2

\* C7: when createTeam answers, the team row it inserted and the creator's
\* leader row exist together or not at all.
C7_NoOrphanTeam ==
    \A p \in Procs :
        (procs[p].kind = "createTeam" /\ procs[p].pc = "done" /\ procs[p].team # None)
        => (procs[p].teamLeft <=> procs[p].leaderLeft)

(* --------------------------- realtime requests ------------------------- *)
\* The store after createTeam by u1 (t1) and by u2 (t2), three addTeamMember
\* calls and u1 reporting safe in both teams; nobody is connected.
TwoTeams ==
    /\ InitBase
    /\ teams = {"t1", "t2"}
    /\ usedTeams = {"t1", "t2"}
    /\ team_members = {MemberRow("t1", "u1", "leader", "safe"),
                       MemberRow("t1", "u2", "member", "offline"),
                       MemberRow("t1", "u3", "member", "offline"),
                       MemberRow("t2", "u2", "leader", "offline"),
                       MemberRow("t2", "u1", "member", "safe")}

InitRT ==
    /\ TwoTeams
    /\ missions = {}
    /\ faults = MaxRealtimeFailures

\* join_team (slot p1) against a concurrent removeTeamMember (slot p2)
NextJoin ==
    \/ \E u \in Users : Connect("s1", u)
    \/ JoinUserTeams_getUserTeams("s1")
    \/ JoinUserTeams_join("s1")
    \/ \E t \in Teams : LeaveTeam("s1", t)
    \/ \E t \in Teams : JoinTeamStart("p1", "s1", t)
    \/ JoinTeam_isTeamMember("p1")
    \/ JoinTeam_join("p1")
    \/ \E u, x \in Users, t \in Teams : RemoveTeamMemberStart("p2", u, t, x)
    \/ RemoveTeamMember_isTeamLeader("p2")
    \/ RemoveTeamMember_authorize("p2")
    \/ RemoveTeamMember_checkLeaders("p2")
    \/ RemoveTeamMember_respond("p2")

SpecJoin == InitRT /\ [][NextJoin]_vars

\* a status_update (slot p1) against connects, disconnects and the offline
\* cascade
NextStatus ==
    \/ \E s \in Sockets, u \in Users : Connect(s, u)
    \/ \E s \in Sockets : JoinUserTeams_getUserTeams(s)
    \/ \E s \in Sockets : JoinUserTeams_join(s)
    \/ Disconnect("s1")
    \/ Offline_getUserTeams("s1")
    \/ Offline_loop("s1")
    \/ \E t \in Teams : StatusUpdateStart("p1", "s1", t, "safe")
    \/ StatusUpdate_isTeamMember("p1")
    \/ StatusUpdate_update("p1")
    \/ StatusUpdate_broadcast("p1")
    \/ StatusUpdate_getUserById("p1")
    \/ StatusUpdate_notify("p1")

SpecStatus == InitRT /\ [][NextStatus]_vars

\* C1: a join_team handler joins the socket to team:T only if the socket's
\* user holds a membership row of T at that moment.
C1_RoomIsolation ==
    \A p \in Procs :
        (procs[p].kind = "joinTeam" /\ procs[p].joined) => procs[p].memberAtJoin

\* C2: every user:status_update event was emitted after a store write that
\* returned no error.
C2_PersistThenBroadcast ==
    \A i \in 1..Len(events) :
        events[i].name = "user:status_update" => events[i].persisted

\* one connection, its status_update and its disconnect
NextCascade ==
    \/ \E u \in Users : Connect("s1", u)
    \/ JoinUserTeams_getUserTeams("s1")
    \/ JoinUserTeams_join("s1")
    \/ Disconnect("s1")
    \/ Offline_getUserTeams("s1")
    \/ Offline_loop("s1")
    \/ \E t \in Teams, st \in {"safe", "need_backup"} : StatusUpdateStart("p1", "s1", t, st)
    \/ StatusUpdate_isTeamMember("p1")
    \/ StatusUpdate_update("p1")
    \/ StatusUpdate_broadcast("p1")
    \/ StatusUpdate_getUserById("p1")
    \/ StatusUpdate_notify("p1")

SpecCascade == InitRT /\ [][NextCascade]_vars

\* The event loop resumes every awaited continuation of the offline cascade
\* and the store answers every call.
FairCascade ==
    SpecCascade /\ WF_vars(Offline_getUserTeams("s1")) /\ WF_vars(Offline_loop("s1"))

OfflineEventsBy(s, t) ==
    Cardinality({i \in 1..Len(events) :
        /\ events[i].by = s /\ events[i].name = "user:status_update"
        /\ events[i].room = t /\ events[i].payload.status = "offline"
        /\ events[i].payload.userId = sockets[s].user})

StatusOf(u, t) == {m.status : m \in RowsOf(u, t)}

StoreAccepted(s) == ~offlineTasks[s].lookupFailed /\ ~offlineTasks[s].writeFailed

InitContent ==
    /\ TwoTeams
    /\ missions = {MissionRow("m1", "t1", "planned", "u1")}
    /\ faults = MaxContentFailures

\* one connection and one request: a status_update, a sendMessage, a
\* createMission, an updateMission, an updateUserStatus or a
\* createBulkNotifications
NextContent ==
    \/ \E u \in Users : Connect("s1", u)
    \/ JoinUserTeams_getUserTeams("s1")
    \/ JoinUserTeams_join("s1")
    \/ \E t \in Teams : StatusUpdateStart("p1", "s1", t, "need_backup")
    \/ StatusUpdate_isTeamMember("p1")
    \/ StatusUpdate_update("p1")
    \/ StatusUpdate_broadcast("p1")
    \/ StatusUpdate_getUserById("p1")
    \/ StatusUpdate_notify("p1")
    \/ \E u \in Users, t \in Teams, arg \in {"encrypted", "plain"} :
          SendMessageStart("p1", u, t, arg)
    \/ SendMessage_isTeamMember("p1")
    \/ SendMessage_insert("p1")
    \/ SendMessage_getUserById("p1")
    \/ SendMessage_getTeamMembers("p1")
    \/ SendMessage_notify("p1")
    \/ \E u \in Users, t \in Teams : CreateMissionStart("p1", u, t)
    \/ CreateMission_isTeamLeader("p1")
    \/ CreateMission_insert("p1")
    \/ CreateMission_getMissionDetails("p1")
    \/ CreateMission_getTeamMembers("p1")
    \/ CreateMission_notify("p1")
    \/ \E u \in Users, id \in Missions, arg \in {None, "planned", "in_progress"} :
          UpdateMissionStart("p1", u, id, arg)
    \/ UpdateMission_getMissionDetails("p1")
    \/ UpdateMission_isTeamLeader("p1")
    \/ UpdateMission_update("p1")
    \/ UpdateMission_afterUpdate("p1")
    \/ UpdateMission_notify("p1")
    \/ UpdateMission_broadcast("p1")
    \/ \E u \in Users, t \in Teams : UpdateUserStatusStart("p1", u, t, "need_backup")
    \/ UpdateUserStatus_requireTeamMember("p1")
    \/ UpdateUserStatus_isTeamMember("p1")
    \/ UpdateUserStatus_update("p1")
    \/ UpdateUserStatus_getTeamMembers("p1")
    \/ UpdateUserStatus_getUserById("p1")
    \/ UpdateUserStatus_notify("p1")
    \/ \E u \in Users, t \in Teams, x \in Users \cup {None} :
          CreateBulkNotificationsStart("p1", u, t, x)
    \/ CreateBulkNotifications_isTeamMember("p1")
    \/ CreateBulkNotifications_getTeamMembers("p1")
    \/ CreateBulkNotifications_createAll("p1")
    \/ CreateBulkNotifications_respond("p1")

SpecContent == InitContent /\ [][NextContent]_vars

EventsBy(p) == {i \in 1..Len(events) : events[i].by = p}

NotificationsBy(p) == {i \in 1..Len(notifications) : notifications[i].by = p}

\* C3: a successful encrypted sendMessage returns the generated key in its
\* own response, and the message:new payload it broadcasts holds that key in
\* no field.
C3_KeyOnlyInResponse ==
    \A p \in Procs :
        (procs[p].kind = "sendMessage" /\ procs[p].res = 201 /\ procs[p].arg = "encrypted")
        => /\ procs[p].resKey = procs[p].encryptionKey
           /\ \A i \in EventsBy(p) :
                 events[i].name = "message:new"
                 => procs[p].encryptionKey \notin KeysExposed(events[i].payload.message.content)

AuthorizedKinds ==
    {"status_update", "updateUserStatus", "sendMessage", "createMission", "updateMission"}

\* The check of handler p ran and the actor did not pass it: the store held
\* no qualifying row, or the check came back false.
AuthFailed(p) ==
    /\ procs[p].kind \in AuthorizedKinds
    /\ procs[p].checked
    /\ \/ ~procs[p].entitled
       \/ ~(IF procs[p].kind \in {"createMission", "updateMission"}
            THEN procs[p].isLeader ELSE procs[p].isMember)

\* C8: a status update (socket event or HTTP request), sendMessage,
\* createMission or updateMission whose actor failed the membership /
\* leadership check writes no row, creates no notification and emits nothing
\* but one error event to its own socket; an HTTP request among them answers 403.
C8_AuthFailureNoSideEffects ==
    \A p \in Procs :
        AuthFailed(p)
        => /\ ~procs[p].wrote
           /\ NotificationsBy(p) = {}
           /\ \A i \in EventsBy(p) :
                 events[i].name = "error" /\ events[i].room = procs[p].socket
           /\ procs[p].socket = None => EventsBy(p) = {}
           /\ (procs[p].pc = "done" /\ procs[p].socket = None) => procs[p].res = 403
           /\ (procs[p].pc = "done" /\ procs[p].socket # None) => Cardinality(EventsBy(p)) = 1

\* A plain member of t1 has asked to create a mission and was refused, and a
\* connected non-member's status_update was answered with an error event.
C8_Witness ==
    \E p \in Procs :
        /\ AuthFailed(p) /\ procs[p].pc = "done" /\ ~procs[p].entitled
        /\ \/ procs[p].kind = "createMission" /\ procs[p].res = 403
           \/ procs[p].kind = "status_update" /\ EventsBy(p) # {}

BroadcastNames == {"message:new", "mission:status_update"}

\* C9: a sendMessage, createMission or updateMission that persisted its row
\* and then saw a createNotification fail still emits its room broadcast.
C9_BroadcastSurvivesFanOutFailure ==
    \A p \in Procs :
        (procs[p].kind \in {"sendMessage", "createMission", "updateMission"}
           /\ procs[p].pc = "done" /\ procs[p].wrote /\ procs[p].failedFor # {})
        => \E i \in EventsBy(p) : events[i].name \in BroadcastNames

FanOutKinds == {"status_update", "updateUserStatus", "createBulkNotifications"}

\* Members a team fan-out has to reach: the roster less the actor and, for a
\* bulk request, less excludeUserId.
FanOutTargets(p) == procs[p].roster \ {procs[p].user, procs[p].userId}

\* C10: a team fan-out in which a createNotification failed has still
\* attempted every recipient of the roster, and its response names the
\* recipients whose notification was created.
C10_FanOutCompleteOrReported ==
    \A p \in Procs :
        (procs[p].kind \in FanOutKinds /\ procs[p].pc = "done" /\ procs[p].failedFor # {})
        => /\ procs[p].attempted = FanOutTargets(p)
           /\ procs[p].created = procs[p].attempted \ procs[p].failedFor

(* ------------------------- registry properties ------------------------ *)
\* Live sessions of user u
LiveSessions(u) == {s \in Sockets : sockets[s].state = "live" /\ sockets[s].user = u}

\* Sessions a unicast to user u reaches:
\*   const socketId = this.connectedUsers.get(userId);
\*   if (socketId) this.io.to(socketId).emit(...)
UnicastTargets(u) == IF connectedUsers[u] = None THEN {} ELSE InRoom(connectedUsers[u])

\* C11: whenever a user has a live session, a unicast to that user reaches
\* one of the user's live sessions.
C11_UnicastReachesLiveSession ==
    \A u \in Users : LiveSessions(u) # {} => UnicastTargets(u) \cap LiveSessions(u) # {}

(* --------------------- concurrent status updates ----------------------- *)
\* one connection sending status_update events that are handled concurrently
NextRace ==
    \/ \E u \in Users : Connect("s1", u)
    \/ JoinUserTeams_getUserTeams("s1")
    \/ JoinUserTeams_join("s1")
    \/ \E p \in Procs, t \in Teams, st \in {"safe", "need_backup"} :
          FreeSlot(p) /\ StatusUpdateStart(p, "s1", t, st)
    \/ \E p \in Procs :
          \/ StatusUpdate_isTeamMember(p)
          \/ StatusUpdate_update(p)
          \/ StatusUpdate_broadcast(p)
          \/ StatusUpdate_getUserById(p)
          \/ StatusUpdate_notify(p)

SpecRace == InitRT /\ [][NextRace]_vars

\* Positions of the user:status_update events for (u, t)
StatusEvents(u, t) ==
    {i \in 1..Len(events) :
        /\ events[i].name = "user:status_update" /\ events[i].room = t
        /\ events[i].payload.userId = u}

Last(S) == CHOOSE i \in S : \A j \in S : j <= i

\* C12: once every handler has finished, the last user:status_update event
\* sent to team:T for a user carries the status stored in the user's row.
C12_LastEventMatchesStore ==
    (\A p \in Procs : procs[p].pc \in {"idle", "done"})
    => \A u \in Users, t \in Teams :
         StatusEvents(u, t) # {}
         => events[Last(StatusEvents(u, t))].payload.status \in StatusOf(u, t)

(* ------------------------- use-case properties ------------------------ *)
\* Positions of the message:new events handler p emitted for its message
MessageEventsBy(p) ==
    {i \in EventsBy(p) : /\ events[i].name = "message:new"
                         /\ events[i].room = procs[p].teamId
                         /\ events[i].payload.message = procs[p].message}

\* C13: every message:new carries a persisted message row; a finished
\* sendMessage that persisted its row has emitted exactly one message:new to
\* the team room, and one whose insert failed has created no notification
\* and emitted none.
C13_OneBroadcastPerMessage ==
    /\ \A i \in 1..Len(events) :
          events[i].name = "message:new"
          => \E j \in 1..Len(messages) : messages[j] = events[i].payload.message
    /\ \A p \in Procs :
          (procs[p].kind = "sendMessage" /\ procs[p].pc = "done" /\ procs[p].checked
             /\ procs[p].isMember)
          => IF procs[p].wrote
             THEN Cardinality(MessageEventsBy(p)) = 1
             ELSE NotificationsBy(p) = {} /\ EventsBy(p) = {}

\* The status update of handler p went through: the socket handler's write
\* returned no error, the HTTP request answered 200.
StatusUpdated(p) ==
    \/ procs[p].kind = "status_update" /\ procs[p].pc = "done" /\ procs[p].wrote
    \/ procs[p].kind = "updateUserStatus" /\ procs[p].pc = "done" /\ procs[p].res = 200

\* C14: every status update that went through, by socket event or by HTTP
\* request, has sent user:status_update {userId, status, teamId} to the
\* team room.
C14_StatusUpdateIsBroadcast ==
    \A p \in Procs :
        StatusUpdated(p)
        => \E i \in EventsBy(p) :
              /\ events[i].name = "user:status_update"
              /\ events[i].room = procs[p].teamId
              /\ events[i].payload = Payload(procs[p].user, procs[p].arg, procs[p].teamId)

RoomBroadcasts == BroadcastNames \cup {"user:status_update"}

\* The notification loop of handler p has gone through the roster it read
\* (less the actor where the loop skips the actor).
FanOutRan(p) ==
    procs[p].attempted =
        IF procs[p].kind \in {"status_update", "sendMessage"}
        THEN procs[p].roster \ {procs[p].user}
        ELSE procs[p].roster

\* C15: in status_update, sendMessage, createMission and updateMission the
\* room broadcast is emitted only after the handler's notification fan-out
\* has run.
C15_BroadcastAfterFanOut ==
    \A p \in Procs :
        (procs[p].kind \in {"status_update", "sendMessage", "createMission", "updateMission"}
           /\ \E i \in EventsBy(p) : events[i].name \in RoomBroadcasts)
        => FanOutRan(p)

\* The offline event of socket s for team t whose update the store refused.
RefusedOfflineEvents(s) ==
    {i \in 1..Len(events) :
        /\ events[i].by = s /\ events[i].name = "user:status_update"
        /\ events[i].payload.status = "offline" /\ ~events[i].persisted}

\* C16: the offline cascade of a disconnect is best-effort per team: when the
\* store refuses the update of one team, the update of every other team the
\* lookup returned is still issued and its room still gets its offline event.
C16_OfflineBestEffort ==
    /\ \A t \in Teams :
         (offlineTasks["s1"].pc = "loop" /\ offlineTasks["s1"].writeFailed
            /\ t \in offlineTasks["s1"].userTeams)
         ~> (t \in offlineTasks["s1"].attempted /\ OfflineEventsBy("s1", t) = 1)
    /\ [](offlineTasks["s1"].pc = "done"
          => /\ offlineTasks["s1"].attempted = offlineTasks["s1"].snapshot
             /\ \A t \in offlineTasks["s1"].snapshot : OfflineEventsBy("s1", t) = 1)

\* A cascade over two teams has finished: the store refused the update of the
\* first team visited, and the second team was visited after it.
C16_Witness ==
    /\ offlineTasks["s1"].pc = "done" /\ offlineTasks["s1"].writeFailed
    /\ offlineTasks["s1"].snapshot = {"t1", "t2"}
    /\ offlineTasks["s1"].attempted = {"t1", "t2"}
    /\ \E i \in RefusedOfflineEvents("s1") :
         \E j \in (i + 1)..Len(events) :
            /\ events[j].by = "s1" /\ events[j].name = "user:status_update"
            /\ events[j].payload.status = "offline"
            /\ events[j].room # events[i].room

(* ------------------------------ sessions ------------------------------- *)
\* handshakes with any credential, the rooms of the admitted sockets and
\* the disconnect of the first
NextSession ==
    \/ \E s \in Sockets, token \in Credentials : Handshake(s, token)
    \/ \E s \in Sockets : Handshake_getUserById(s)
    \/ \E s \in Sockets : JoinUserTeams_getUserTeams(s)
    \/ \E s \in Sockets : JoinUserTeams_join(s)
    \/ \E s \in Sockets, t \in Teams : JoinTeamStart("p1", s, t)
    \/ JoinTeam_isTeamMember("p1")
    \/ JoinTeam_join("p1")
    \/ \E s \in Sockets, t \in Teams : LeaveTeam(s, t)
    \/ Disconnect("s1")
    \/ Offline_getUserTeams("s1")
    \/ Offline_loop("s1")

SpecSession == InitRT /\ [][NextSession]_vars

Registered(s) == \E u \in Users : connectedUsers[u] = s

\* The socket carries the identity of a token the secret signed.
Authenticated(s) ==
    /\ sockets[s].token \in {AccessToken(u) : u \in Users}
    /\ sockets[s].user = sockets[s].token.userId

\* No handler has run for the socket.
Untouched(s) ==
    /\ sockets[s].user = None /\ sockets[s].rooms = {}
    /\ ~Registered(s)
    /\ joinTasks[s] = NoTask /\ offlineTasks[s] = NoTask
    /\ \A p \in Procs : procs[p].socket # s
    /\ \A i \in 1..Len(events) : events[i].by # s /\ s \notin events[i].to

\* C17: a connection whose credential is missing or fails verification is
\* refused before any handler runs, and every socket that is registered,
\* admitted or joined to a room carries an authenticated user identity.
C17_HandshakeGate ==
    \A s \in Sockets :
        /\ (Registered(s) \/ sockets[s].rooms # {} \/ sockets[s].state \in {"live", "closed"})
           => Authenticated(s)
        /\ (sockets[s].token.kind # "signed" \/ sockets[s].state = "refused")
           => Untouched(s) /\ sockets[s].state \in {"free", "refused"}

\* One connection was refused for a forged or expired token while another,
\* admitted, sits in a team room.
C17_Witness ==
    /\ sockets["s1"].state = "refused"
    /\ sockets["s1"].token.kind \in {"forged", "expired"}
    /\ sockets["s2"].state = "live" /\ Registered("s2")
    /\ sockets["s2"].rooms # {}

\* C18: the connection handler registers the session and starts the team
\* lookup; when the lookup has succeeded, the auto-join adds to the session's
\* rooms exactly the teams in which the user had a row when the lookup ran.
C18_AutoJoinAtLookup ==
    [][\A s \in Sockets :
         /\ (sockets[s].state # "live" /\ sockets'[s].state = "live")
            => /\ connectedUsers'[sockets'[s].user] = s
               /\ joinTasks'[s].pc = "getUserTeams"
         /\ (joinTasks[s].pc = "join" /\ joinTasks'[s].pc = "done"
               /\ ~joinTasks[s].lookupFailed)
            => sockets'[s].rooms = sockets[s].rooms \cup joinTasks[s].snapshot]_vars

\* An auto-join has put the session into the rooms of the lookup, one of
\* which the user has since lost the row of.
C18_Witness ==
    /\ joinTasks["s1"].pc = "done" /\ ~joinTasks["s1"].lookupFailed
    /\ joinTasks["s1"].snapshot # {}
    /\ joinTasks["s1"].snapshot \subseteq sockets["s1"].rooms
    /\ \E t \in joinTasks["s1"].snapshot : RowsOf(sockets["s1"].user, t) = {}

\* The join_team of slot p found no row of the user, or got no answer.
JoinRejected(p) ==
    /\ procs[p].kind = "joinTeam" /\ procs[p].checked
    /\ (~procs[p].entitled \/ procs[p].error)

\* C19: a rejected join_team is a soft failure: the step that answers a
\* join_team whose user has no row in the team, or whose lookup failed, sends
\* one error event to the requesting session alone and changes neither the
\* session, its rooms nor the registry.
C19_RejectedJoinIsSoft ==
    [][\A p \in Procs :
         (JoinRejected(p) /\ procs[p].pc = "join" /\ procs'[p].pc = "done")
         => /\ sockets' = sockets
            /\ sockets[procs[p].socket].state = "live"
            /\ connectedUsers' = connectedUsers
            /\ Len(events') = Len(events) + 1
            /\ events'[Len(events')].name = "error"
            /\ events'[Len(events')].to = {procs[p].socket}
            /\ SubSeq(events', 1, Len(events)) = events]_vars

\* A session auto-joined to its team asked for a team it has no row in and
\* got the error event; it is still registered and in its room.
C19_Witness ==
    \E p \in Procs :
        /\ JoinRejected(p) /\ procs[p].pc = "done" /\ ~procs[p].entitled
        /\ sockets[procs[p].socket].state = "live"
        /\ sockets[procs[p].socket].rooms # {}
        /\ procs[p].teamId \notin sockets[procs[p].socket].rooms
        /\ connectedUsers[procs[p].user] = procs[p].socket
        /\ \E i \in 1..Len(events) :
             events[i].name = "error" /\ events[i].by = p /\ events[i].to = {procs[p].socket}

(* ------------------------------- typing -------------------------------- *)
\* two connections, their rooms and their typing indicators
NextTyping ==
    \/ \E s \in Sockets, u \in Users : Connect(s, u)
    \/ \E s \in Sockets : JoinUserTeams_getUserTeams(s)
    \/ \E s \in Sockets : JoinUserTeams_join(s)
    \/ \E s \in Sockets, t \in Teams : LeaveTeam(s, t)
    \/ \E s \in Sockets, t \in Teams, isTyping \in BOOLEAN : Typing(s, t, isTyping)

SpecTyping == InitRT /\ [][NextTyping]_vars

\* C20: typing indicators never echo: every user_typing event for team T
\* went to the sessions joined to team:T at the emit other than the
\* originating session, and never to the originating session.
C20_TypingNeverEchoes ==
    \A i \in TypingEvents :
        /\ events[i].by \notin events[i].to
        /\ events[i].to = events[i].present \ {events[i].by}

\* A session joined to the room typed and the other session of the room got
\* the indicator.
C20_Witness ==
    \E i \in TypingEvents :
        /\ events[i].by \in events[i].present
        /\ events[i].to # {}
        /\ events[i].payload.isTyping

\* C21: the registry is last-connection-wins: it holds at most one session
\* id per user, and the step that admits a session of user U leaves U's entry
\* at that session and every other entry as it was.
C21_LastConnectionWins ==
    /\ [](connectedUsers \in [Users -> Sockets \cup {None}])
    /\ [][\A s \in Sockets :
            (sockets[s].state # "live" /\ sockets'[s].state = "live")
            => /\ connectedUsers'[sockets'[s].user] = s
               /\ \A u \in Users \ {sockets'[s].user} :
                    connectedUsers'[u] = connectedUsers[u]]_vars

\* A user has two live sessions and the registry names the second.
C21_Witness ==
    /\ sockets["s1"].state = "live" /\ sockets["s2"].state = "live"
    /\ sockets["s1"].user = sockets["s2"].user
    /\ connectedUsers[sockets["s2"].user] = "s2"

\* The status_update of slot p has just had the notification row of member
\* cur accepted by the store and is about to deliver it.
Delivering(p) ==
    /\ procs[p].kind = "status_update" /\ procs[p].pc = "notify"
    /\ ~procs[p].error /\ procs[p].cur # None

RowsFor(p, u) ==
    {i \in 1..Len(notifications) :
        notifications[i].by = p /\ notifications[i].user_id = u}

\* C22: in a status_update fan-out a recipient with no live session has its
\* notification row persisted, gets no notification:new event, and the
\* handler goes on without failing.
C22_PersistWithoutLiveSession ==
    /\ [](\A p \in Procs : Delivering(p) => Cardinality(RowsFor(p, procs[p].cur)) = 1)
    /\ [][\A p \in Procs :
            (Delivering(p) /\ LiveSessions(procs[p].cur) = {} /\ procs'[p] # procs[p])
            => /\ events' = events
               /\ ~procs'[p].thrown
               /\ SubSeq(notifications', 1, Len(notifications)) = notifications]_vars

\* A status_update has finished without failing; one of its recipients has
\* no session, has the row and was sent no event.
C22_Witness ==
    \E p \in Procs :
        /\ procs[p].kind = "status_update" /\ procs[p].pc = "done" /\ ~procs[p].thrown
        /\ \E m \in procs[p].attempted \ procs[p].failedFor :
             /\ LiveSessions(m) = {}
             /\ RowsFor(p, m) # {}
             /\ \A i \in 1..Len(events) :
                  events[i].by = p /\ events[i].name = "notification:new"
                  => events[i].payload.userId # m

\* C23: a team fan-out (status change, message sent, mission created,
\* mission status changed) creates no notification row whose target is the
\* user who performed the operation.
C23_FanOutExcludesActor ==
    \A p \in Procs :
        procs[p].kind \in {"status_update", "updateUserStatus", "sendMessage",
                           "createMission", "updateMission"}
        => \A i \in NotificationsBy(p) : notifications[i].user_id # procs[p].user

\* C24: every team fan-out attempts live delivery: when a handler has
\* finished, each member whose notification row it created while the member
\* was in the connection registry was sent a notification:new event.
C24_FanOutDeliversLive ==
    \A p \in Procs :
        (procs[p].kind \in {"status_update", "updateUserStatus", "sendMessage",
                            "createMission", "updateMission"}
           /\ procs[p].pc = "done" /\ ~procs[p].thrown /\ procs[p].res \in {0, 200, 201})
        => \A m \in procs[p].owed :
             \E i \in EventsBy(p) :
                events[i].name = "notification:new" /\ events[i].payload.userId = m

\* Teams whose offline write by the cascade of socket s the store accepted.
WrittenOffline(s) ==
    {events[i].room : i \in {j \in 1..Len(events) :
        /\ events[j].by = s /\ events[j].name = "user:status_update"
        /\ events[j].payload.status = "offline" /\ events[j].persisted}}

StatusChangeRows(by, m) ==
    {i \in 1..Len(notifications) :
        /\ notifications[i].by = by /\ notifications[i].user_id = m
        /\ notifications[i].type = "status_change"}

\* C25: every persisted status change has one fan-out: a finished
\* status_update whose write the store accepted has created one status_change
\* row for each other member of the team, and a finished offline cascade one
\* row per other member for each team whose write the store accepted.
C25_OneFanOutPerStatusWrite ==
    /\ \A p \in Procs :
         (procs[p].kind = "status_update" /\ procs[p].pc = "done" /\ procs[p].wrote)
         => \A m \in Roster(procs[p].teamId) \ {procs[p].user} :
               Cardinality(StatusChangeRows(p, m)) = 1
    /\ \A s \in Sockets :
         offlineTasks[s].pc = "done"
         => \A m \in Users \ {sockets[s].user} :
               Cardinality(StatusChangeRows(s, m))
                 = Cardinality({t \in WrittenOffline(s) : m \in Roster(t)})

(* ------------------------------ missions ------------------------------- *)
\* Team t1 with two leaders and a member or observer, team t2 with a leader
\* and a member, and one mission of t1.
InitMission ==
    /\ InitBase
    /\ teams = {"t1", "t2"}
    /\ usedTeams = {"t1", "t2"}
    /\ \E r3 \in {"member", "observer"} :
         team_members = {MemberRow("t1", "u1", "leader", "safe"),
                         MemberRow("t1", "u2", "leader", "safe"),
                         MemberRow("t1", "u3", r3, "safe"),
                         MemberRow("t2", "u2", "leader", "safe"),
                         MemberRow("t2", "u1", "member", "safe")}
    /\ missions = {MissionRow("m1", "t1", "planned", "u1")}
    /\ faults = MaxContentFailures

\* two mission requests, or one next to a member leaving team t1
NextMission ==
    \/ \E p \in Procs, u \in Users, t \in Teams : FreeSlot(p) /\ CreateMissionStart(p, u, t)
    \/ \E p \in Procs : CreateMission_isTeamLeader(p)
    \/ \E p \in Procs : CreateMission_insert(p)
    \/ \E p \in Procs : CreateMission_getMissionDetails(p)
    \/ \E p \in Procs : CreateMission_getTeamMembers(p)
    \/ \E p \in Procs : CreateMission_notify(p)
    \/ \E p \in Procs, u \in Users, id \in Missions, arg \in {None, "in_progress"} :
          FreeSlot(p) /\ UpdateMissionStart(p, u, id, arg)
    \/ \E p \in Procs : UpdateMission_getMissionDetails(p)
    \/ \E p \in Procs : UpdateMission_isTeamLeader(p)
    \/ \E p \in Procs : UpdateMission_update(p)
    \/ \E p \in Procs : UpdateMission_afterUpdate(p)
    \/ \E p \in Procs : UpdateMission_notify(p)
    \/ \E p \in Procs : UpdateMission_broadcast(p)
    \/ \E p \in Procs, u \in Users, id \in Missions : FreeSlot(p) /\ DeleteMissionStart(p, u, id)
    \/ \E p \in Procs : DeleteMission_getMissionDetails(p)
    \/ \E p \in Procs : DeleteMission_isTeamLeader(p)
    \/ \E p \in Procs : DeleteMission_delete(p)
    \/ \E p \in Procs : DeleteMission_respond(p)
    \/ \E u \in Users : RemoveTeamMemberStart("p2", u, "t1", u)
    \/ RemoveTeamMember_isTeamLeader("p2")
    \/ RemoveTeamMember_authorize("p2")
    \/ RemoveTeamMember_checkLeaders("p2")
    \/ RemoveTeamMember_respond("p2")

SpecMission == InitMission /\ [][NextMission]_vars

MissionKinds == {"createMission", "updateMission", "deleteMission"}

\* C26: mission mutation is leader-only: every step that creates, changes or
\* deletes a mission row is a step of a create, update or delete request whose
\* actor held a leader row in the mission's team when the request was
\* authorized; requests authorized otherwise leave every mission row as it is.
C26_MissionMutationLeaderOnly ==
    [][/\ missions' # missions
          => \E p \in Procs :
               /\ procs'[p] # procs[p]
               /\ procs[p].kind \in MissionKinds
               /\ procs[p].checked /\ procs[p].entitled
               /\ \A m \in (missions' \ missions) \cup (missions \ missions') :
                    m.team_id = procs[p].teamId
       /\ \A p \in Procs :
            (procs[p].kind \in MissionKinds /\ procs'[p] # procs[p]
               /\ ~(procs[p].checked /\ procs[p].entitled))
            => missions' = missions]_vars

\* An update authorized for a leader has changed a mission, and the actor
\* has since left the team and holds no row in it.
C26_Witness ==
    \E p \in Procs :
        /\ procs[p].kind = "updateMission" /\ procs[p].pc = "done" /\ procs[p].wrote
        /\ procs[p].checked /\ procs[p].entitled
        /\ RowsOf(procs[p].user, procs[p].teamId) = {}
        /\ \E m \in missions : m.id = procs[p].missionId /\ m.status = "in_progress"

(* ----------------------------- encryption ------------------------------ *)
\* a decryptMessage request for an envelope encrypt produced, as it is or with
\* one field absent, not hex or changed, and a round trip through encryptE2E
NextCrypto ==
    \/ \E u \in Users, plaintext \in PlainStrings, key \in Keys, iv \in Ivs,
          f \in EnvelopeFields \cup {None}, how \in {"missing", "malformed", "altered"},
          rt \in Runtimes :
          /\ (f = None => how = "altered")
          /\ DecryptMessage("p1", u, Tamper(Wire(Encrypt(plaintext, key, iv)), f, how),
                            [field |-> f, how |-> how], rt)
    \/ \E plaintext \in PlainStrings, rt \in Runtimes : RoundTrip("p2", plaintext, rt)

SpecCrypto == InitContent /\ [][NextCrypto]_vars

\* C27: decryption fails closed: a decryptMessage whose envelope has one of
\* its four fields absent, not hex or changed since encrypt answers with an
\* error and returns no plaintext.
C27_DecryptFailsClosed ==
    \A p \in Procs :
        (procs[p].kind = "decryptMessage" /\ procs[p].arg.field # None)
        => ~procs[p].out.ok /\ procs[p].out.text = <<>> /\ procs[p].res = 400

\* C28: for every plaintext P, decrypt(encryptE2E(P)) returns exactly P.
C28_RoundTrip ==
    \A p \in Procs :
        procs[p].kind = "roundTrip" => procs[p].out = Returned(procs[p].arg)

\* C29: membership uniqueness: whatever createTeam, addTeamMember and
\* removeTeamMember requests interleave, team_members holds at most one row
\* per (team, user) pair.
C29_MembershipUnique ==
    \A u \in Users, t \in Teams : Cardinality(RowsOf(u, t)) <= 1

\* Two addTeamMember requests for the same user and team both passed the
\* already-a-member check; with no store failure one answered 201 and the
\* other 400, and the pair has one row.
C29_Witness ==
    /\ faults = MaxStoreFailures
    /\ procs["p1"].kind = "addTeamMember" /\ procs["p2"].kind = "addTeamMember"
    /\ procs["p1"].teamId = procs["p2"].teamId /\ procs["p1"].userId = procs["p2"].userId
    /\ ~procs["p1"].isAlreadyMember /\ ~procs["p2"].isAlreadyMember
    /\ procs["p1"].pc = "done" /\ procs["p2"].pc = "done"
    /\ {procs["p1"].res, procs["p2"].res} = {201, 400}
    /\ Cardinality(RowsOf(procs["p1"].userId, procs["p1"].teamId)) = 1

(* ---------------------------- read flags ------------------------------- *)
\* a bulk notification to a team (slot p2) and one mark-as-read or
\* mark-all-as-read request by any user (slot p1)
NextRead ==
    \/ \E u \in Users, t \in Teams : CreateBulkNotificationsStart("p2", u, t, None)
    \/ CreateBulkNotifications_isTeamMember("p2")
    \/ CreateBulkNotifications_getTeamMembers("p2")
    \/ CreateBulkNotifications_createAll("p2")
    \/ CreateBulkNotifications_respond("p2")
    \/ \E u \in Users, id \in 1..MaxNotifications : MarkAsReadStart("p1", u, id)
    \/ MarkAsRead_update("p1")
    \/ MarkAsRead_respond("p1")
    \/ \E u \in Users : MarkAllAsReadStart("p1", u)
    \/ MarkAllAsRead_update("p1")
    \/ MarkAllAsRead_respond("p1")

SpecRead == InitContent /\ [][NextRead]_vars

\* C30: the read flag of a notification is changed only by its owner: every
\* step that changes the read flag of a row is a step of a mark-as-read or
\* mark-all-as-read request issued by the row's target user.
C30_ReadFlagOwnerOnly ==
    [][\A i \in 1..Len(notifications) :
         notifications'[i].read # notifications[i].read
         => \E p \in Procs :
              /\ procs[p].kind \in {"markAsRead", "markAllAsRead"}
              /\ procs'[p] # procs[p]
              /\ procs[p].user = notifications[i].user_id]_vars

\* A mark-all-as-read has answered 200: a row of its user is read and a row
\* of another user is still unread.
C30_Witness ==
    /\ procs["p1"].kind = "markAllAsRead" /\ procs["p1"].pc = "done" /\ procs["p1"].res = 200
    /\ \E i, j \in 1..Len(notifications) :
         /\ notifications[i].user_id = procs["p1"].user /\ notifications[i].read
         /\ notifications[j].user_id # procs["p1"].user /\ ~notifications[j].read

(* ------------------- a status update to the value held ----------------- *)
\* one connection with its status_update (slot p1) next to an
\* updateUserStatus (slot p2), each to a status some member already holds
NextSame ==
    \/ \E u \in Users : Connect("s1", u)
    \/ \E t \in Teams, status \in {"safe", "offline"} : StatusUpdateStart("p1", "s1", t, status)
    \/ StatusUpdate_isTeamMember("p1")
    \/ StatusUpdate_update("p1")
    \/ StatusUpdate_broadcast("p1")
    \/ StatusUpdate_getUserById("p1")
    \/ StatusUpdate_notify("p1")
    \/ \E u \in Users, t \in Teams, status \in {"safe", "offline"} :
          UpdateUserStatusStart("p2", u, t, status)
    \/ UpdateUserStatus_requireTeamMember("p2")
    \/ UpdateUserStatus_isTeamMember("p2")
    \/ UpdateUserStatus_update("p2")
    \/ UpdateUserStatus_getTeamMembers("p2")
    \/ UpdateUserStatus_getUserById("p2")
    \/ UpdateUserStatus_notify("p2")

SpecSame == InitRT /\ [][NextSame]_vars

StatusKinds == {"status_update", "updateUserStatus"}

\* The status write of slot p asked for the value the row held.
SameValue(p) == procs[p].kind \in StatusKinds /\ procs[p].held = {procs[p].arg}

\* The request of slot p has finished with every store call accepted.
StatusDone(p) ==
    /\ procs[p].pc = "done" /\ procs[p].wrote /\ ~procs[p].thrown
    /\ procs[p].kind = "updateUserStatus" => procs[p].res = 200

\* C31: a status update to the value the row already holds is written like
\* any other (the store accepts it and the handler goes on), a finished one
\* has created exactly one status_change notification for every other member
\* of the team and none for the caller, and the caller keeps one membership
\* row in the team.
C31_SameStatusStillTakesEffect ==
    /\ [](\A p \in Procs :
            SameValue(p) =>
              /\ Cardinality(RowsOf(procs[p].user, procs[p].teamId)) = 1
              /\ StatusDone(p) =>
                    \A u \in Users :
                        Cardinality({i \in NotificationsBy(p) : notifications[i].user_id = u})
                        = IF u \in Roster(procs[p].teamId) \ {procs[p].user} THEN 1 ELSE 0)
    /\ [][\A p \in Procs :
            ( /\ procs[p].kind \in StatusKinds /\ procs[p].pc = "update"
              /\ procs[p].isMember /\ procs'[p] # procs[p] /\ faults' = faults
              /\ {m.status : m \in RowsOf(procs[p].user, procs[p].teamId)} = {procs[p].arg} )
            => /\ procs'[p].wrote /\ ~procs'[p].error /\ procs'[p].pc # "done"
               /\ team_members' = team_members]_vars

\* Both kinds of request have finished a write of the value held, u1 of
\* team t1 being the caller of one, and u2 and u3 hold its notifications.
C31_Witness ==
    /\ \A p \in Procs : SameValue(p) /\ StatusDone(p)
    /\ procs["p1"].user = "u1" /\ procs["p1"].teamId = "t1" /\ procs["p1"].arg = "safe"
    /\ {notifications[i].user_id : i \in NotificationsBy("p1")} = {"u2", "u3"}
\* The updateMission of slot p has answered 200.
MissionUpdated(p) ==
    procs[p].kind = "updateMission" /\ procs[p].pc = "done" /\ procs[p].res = 200

\* C32: an updateMission that answered 200 has created mission_update
\* notifications exactly when its body named a status other than the one the
\* mission row held when the update was written, and it has broadcast one
\* mission:status_update event to the room of the mission's team.
C32_NotifyIffStatusChanged ==
    \A p \in Procs :
        MissionUpdated(p) =>
          /\ (NotificationsBy(p) # {}) <=> (procs[p].arg # None /\ procs[p].held # {procs[p].arg})
          /\ \E i \in EventsBy(p) :
                events[i].name = "mission:status_update" /\ events[i].room = procs[p].teamId
(* ------------------------- rooms and memberships ----------------------- *)
\* one session with its auto-join, join_team (slot p1), leave_team and
\* disconnect, next to an addTeamMember or a removeTeamMember (slot p2)
NextRooms ==
    \/ \E u \in Users : Connect("s1", u)
    \/ JoinUserTeams_getUserTeams("s1")
    \/ JoinUserTeams_join("s1")
    \/ \E t \in Teams : LeaveTeam("s1", t)
    \/ \E t \in Teams : JoinTeamStart("p1", "s1", t)
    \/ JoinTeam_isTeamMember("p1")
    \/ JoinTeam_join("p1")
    \/ Disconnect("s1")
    \/ Offline_getUserTeams("s1")
    \/ Offline_loop("s1")
    \/ \E u \in Users : AddTeamMemberStart("p2", u, "t2", "u3", "member")
    \/ AddTeamMember_isTeamLeader("p2")
    \/ AddTeamMember_isTeamMember("p2")
    \/ AddTeamMember_insert("p2")
    \/ AddTeamMember_getUserById("p2")
    \/ AddTeamMember_createNotification("p2")
    \/ AddTeamMember_respond("p2")
    \/ \E u, x \in Users, t \in Teams : RemoveTeamMemberStart("p2", u, t, x)
    \/ RemoveTeamMember_isTeamLeader("p2")
    \/ RemoveTeamMember_authorize("p2")
    \/ RemoveTeamMember_checkLeaders("p2")
    \/ RemoveTeamMember_respond("p2")

SpecRooms == InitRT /\ [][NextRooms]_vars

MembershipKinds == {"addTeamMember", "removeTeamMember"}

\* The step is one of session s's own: its connection or disconnect, its
\* auto-join, a join_team of its own, or a leave_team (which takes one room
\* from a live session and touches nothing else).
OwnRoomStep(s) ==
    \/ sockets'[s].state # sockets[s].state
    \/ joinTasks'[s] # joinTasks[s]
    \/ \E p \in Procs : /\ procs[p].kind = "joinTeam" /\ procs[p].socket = s
                         /\ procs'[p] # procs[p]
    \/ /\ sockets[s].state = "live"
       /\ \E t \in sockets[s].rooms : sockets'[s].rooms = sockets[s].rooms \ {t}
       /\ UNCHANGED <<team_members, procs, joinTasks, offlineTasks, connectedUsers>>

\* C33: no step of an addTeamMember or removeTeamMember request, and no step
\* that adds or deletes a membership row, changes the rooms of any session;
\* a session's rooms change only in its own connect, auto-join, join_team,
\* leave_team and disconnect steps.
C33_RoomsAreConnectTimeSnapshot ==
    [][/\ (\E p \in Procs : procs[p].kind \in MembershipKinds /\ procs'[p] # procs[p])
            => sockets' = sockets
       /\ team_members' # team_members
            => \A s \in Sockets : sockets'[s].rooms = sockets[s].rooms
       /\ \A s \in Sockets :
            sockets'[s].rooms # sockets[s].rooms => OwnRoomStep(s)]_vars

\* A removal took the row the session's user held in t1 and answered 200
\* after the session's auto-join; the live session is still joined to team:t1.
C33_Witness ==
    /\ sockets["s1"].state = "live" /\ joinTasks["s1"].pc = "done"
    /\ procs["p2"].kind = "removeTeamMember" /\ procs["p2"].pc = "done"
    /\ procs["p2"].res = 200 /\ procs["p2"].deleted /\ procs["p2"].teamId = "t1"
    /\ sockets["s1"].user = procs["p2"].userId
    /\ RowsOf(sockets["s1"].user, "t1") = {}
    /\ "t1" \in sockets["s1"].rooms
\* Session s2 is live, belongs to the user of session s and is the one the
\* registry holds for that user.
Supersedes(s2, s) ==
    /\ s2 # s /\ sockets[s2].state = "live"
    /\ sockets[s2].user = sockets[s].user
    /\ connectedUsers[sockets[s].user] = s2

\* C34: when a session closes while a later session of the same user is
\* live and registered, the registry keeps pointing at the later session,
\* and the closed session's offline cascade writes no membership row while
\* the later session is live.
C34_SupersededDisconnectKeepsUserOnline ==
    [][\A s, s2 \in Sockets :
         /\ (sockets[s].state = "live" /\ sockets'[s].state = "closed" /\ Supersedes(s2, s))
              => connectedUsers'[sockets[s].user] = s2
         /\ ( /\ sockets[s].state = "closed" /\ offlineTasks'[s] # offlineTasks[s]
              /\ s2 # s /\ sockets[s2].state = "live" /\ sockets[s2].user = sockets[s].user )
              => team_members' = team_members]_vars
(* ------------------------------ registry ------------------------------- *)
\* handshakes with any credential and the disconnect of any session, with
\* the auto-join and the offline cascade each of them starts
NextRegistry ==
    \/ \E s \in Sockets, token \in Credentials : Handshake(s, token)
    \/ \E s \in Sockets : Handshake_getUserById(s)
    \/ \E s \in Sockets : JoinUserTeams_getUserTeams(s)
    \/ \E s \in Sockets : JoinUserTeams_join(s)
    \/ \E s \in Sockets : Disconnect(s)
    \/ \E s \in Sockets : Offline_getUserTeams(s)
    \/ \E s \in Sockets : Offline_loop(s)

SpecRegistry == InitRT /\ [][NextRegistry]_vars

\* C35: whenever the registry maps user u to session s, s is a live session
\* that was admitted with a token issued to u.
C35_RegistryPointsAtLiveSession ==
    \A u \in Users :
        connectedUsers[u] # None
        => /\ connectedUsers[u] \in Sockets
           /\ sockets[connectedUsers[u]].state = "live"
           /\ sockets[connectedUsers[u]].user = u
           /\ Authenticated(connectedUsers[u])

\* A user's first session has closed and the user has connected again: the
\* registry maps the user to the second session, which is live.
C35_Witness ==
    /\ sockets["s1"].state = "closed" /\ sockets["s2"].state = "live"
    /\ sockets["s1"].user = sockets["s2"].user
    /\ connectedUsers[sockets["s2"].user] = "s2"
    /\ offlineTasks["s1"].pc = "done"
\* C36: a session the registry holds is joined to the room of every team in
\* which its user has a membership row.
C36_RegisteredSessionIsInItsRooms ==
    \A s \in Sockets :
        (sockets[s].state = "live" /\ connectedUsers[sockets[s].user] = s)
        => TeamsOfUser(sockets[s].user) \subseteq sockets[s].rooms
\* C37: a user_typing event for team T reaches a session only when the
\* originating session's user holds a membership row of T or the originating
\* session is itself joined to team:T.
C37_TypingIsMembershipScoped ==
    \A i \in TypingEvents :
        events[i].to # {}
        => \/ RowsOf(events[i].payload.userId, events[i].room) # {}
           \/ events[i].by \in events[i].present

(* ----------------------- notification creation ------------------------- *)
\* a createNotification (slot p1) and a createBulkNotifications (slot p2)
NextCreate ==
    \/ \E u, x \in Users : CreateNotificationStart("p1", u, x)
    \/ CreateNotification_insert("p1")
    \/ \E u \in Users, t \in Teams, x \in Users \cup {None} :
          CreateBulkNotificationsStart("p2", u, t, x)
    \/ CreateBulkNotifications_isTeamMember("p2")
    \/ CreateBulkNotifications_getTeamMembers("p2")
    \/ CreateBulkNotifications_createAll("p2")
    \/ CreateBulkNotifications_respond("p2")

SpecCreate == InitContent /\ [][NextCreate]_vars

CreationKinds == {"createNotification", "createBulkNotifications"}

\* C38: every notification row persisted by a createNotification or
\* createBulkNotifications request of a user who is not an admin has that
\* user as its target.
C38_OnlyAdminsNotifyOthers ==
    \A i \in 1..Len(notifications) :
        LET p == notifications[i].by
        IN (procs[p].kind \in CreationKinds /\ ~IsAdmin(procs[p].user))
           => notifications[i].user_id = procs[p].user
\* C39: in every store state and for every user and team, isTeamMember and
\* isTeamLeader answer with a boolean whether or not the lookup succeeds: a
\* failed lookup and a missing row both give false, isTeamLeader is true only
\* when the user's row has role leader, and whenever isTeamLeader is true
\* isTeamMember is true as well.
C39_MembershipChecksAreTotal ==
    \A u \in Users, t \in Teams :
        /\ \A ok \in BOOLEAN :
              /\ IsTeamMember(u, t, ok) \in BOOLEAN
              /\ IsTeamLeader(u, t, ok) \in BOOLEAN
              /\ IsTeamLeader(u, t, ok) => IsTeamMember(u, t, ok)
        /\ ~IsTeamMember(u, t, FALSE) /\ ~IsTeamLeader(u, t, FALSE)
        /\ RowsOf(u, t) = {} => ~IsTeamMember(u, t, TRUE) /\ ~IsTeamLeader(u, t, TRUE)
        /\ IsTeamLeader(u, t, TRUE) => \E m \in RowsOf(u, t) : m.role = "leader"
        /\ IsTeamMember(u, t, TRUE) <=> RowsOf(u, t) # {}

\* With no store failure, a join_team for a team in which the session's user
\* has no row was refused with an error event (not thrown), and a
\* removeTeamMember whose caller passed the leader check answered 200.
C39_Witness ==
    /\ faults = MaxRealtimeFailures
    /\ procs["p1"].kind = "joinTeam" /\ procs["p1"].pc = "done"
    /\ procs["p1"].checked /\ ~procs["p1"].isMember /\ ~procs["p1"].entitled
    /\ ~procs["p1"].joined /\ ~procs["p1"].thrown
    /\ procs["p2"].kind = "removeTeamMember" /\ procs["p2"].res = 200
    /\ procs["p2"].isLeader /\ procs["p2"].deleted
====
